---- MODULE Spec2Model ----
(***************************************************************************)
(* State-machine model of lsp_agent: the control process (editor-facing,   *)
(* owns the inference engine) and the rendering process (hosts the         *)
(* generated mini-apps) share one replicated LspAgent document.            *)
(*                                                                         *)
(* The replicated document is consumed as a primitive: every with_doc_mut  *)
(* closure (hydrate, mutate, reconcile, commit) is one atomic transaction  *)
(* on the document, and doc_handle.changed() resolves for a watcher when   *)
(* a transaction commits after the watcher called changed().  A commit of  *)
(* the other process reaches a watcher asynchronously (Deliver).           *)
(***************************************************************************)
EXTENDS Integers, Sequences, FiniteSets, TLC

VARIABLES
    doc,             \* the LspAgent document
    ctl,             \* orchestrator task (main_task) of the control process
    chat,            \* locals of handle_chat_request while a turn runs
    chat_tx,         \* mpsc channel of ChatRequest (chat_tx / chat_rx)
    callers,         \* chat_request callers: what each oneshot received
    max_iterations,  \* LSP_AGENT_TOOL_MAX_ITERATIONS or the default
    router,          \* response router task of the rendering process
    web,             \* WebRuntime and event loop of the rendering process
    obs,             \* change observers: state of each watcher's changed()
    sync,            \* commits of the other process not yet delivered
    agent,           \* AutomergeAgent::shutdown caller
    log,             \* history of queue operations (pushes, removals)
    env,             \* events the editor and the mini-apps may still issue
    boot,            \* peer bootstrap: HTTP endpoint, listeners, joiner
    am,              \* an automerge document a value is reconciled into
    request          \* a request built by prompts::build_web_request

vars == <<doc, ctl, chat, chat_tx, callers, max_iterations, router, web,
          obs, sync, agent, log, env, boot, am, request>>

----------------------------------------------------------------------------
(* Bounds of the model *)

MaxChats == 1         \* chat_request calls made by the editor
MaxAppCalls == 1      \* inference calls made by mini-apps
MaxOverride == 2      \* largest LSP_AGENT_TOOL_MAX_ITERATIONS override
MailboxCalls == 2     \* inference calls in the runs of the mailbox
LiveChats == 1        \* chat_request calls in the runs under fairness
LiveCalls == 1        \* inference calls in the runs under fairness
ChatTurns == 1        \* chat turns in the runs of the tool-use loop
DocEdits == 3         \* editor calls in the runs of the editor's documents
ShutChats == 1        \* chat_request calls in the runs with shutdown
ShutCalls == 1        \* inference calls in the runs with shutdown
ExitChats == 2        \* chat_request calls in the runs of chat and shutdown

(* Program constants *)

DEFAULT_TOOL_MAX_ITERATIONS == 3

----------------------------------------------------------------------------
(* Option<T>: None or Some(x) *)

None == <<>>
Some(x) == <<x>>
IsSome(o) == o # <<>>
Unwrap(o) == o[1]

\* Result values, such as the Result<String, String> of
\* InferenceClient::inference
Ok(text) == [ok |-> TRUE, text |-> text]
Err(cause) == [ok |-> FALSE, text |-> cause]

----------------------------------------------------------------------------
(* The shared document (shared_document crate) *)

EmptyMap == [k \in {} |-> None]

\* HashMap::insert
MapInsert(m, k, v) == [x \in DOMAIN m \cup {k} |-> IF x = k THEN v ELSE m[x]]

\* HashMap::remove
MapRemove(m, k) == [x \in DOMAIN m \ {k} |-> m[x]]

DocumentContent(text) == [text |-> text]

DocumentManagerDefault == [documents |-> EmptyMap, active_document |-> None]

\* a default with the exit flag set
LspAgentDefault_exiting ==
    [requests |-> <<>>,
     responses |-> <<>>,
     text_documents |-> [documents |-> <<>>, active_document |-> <<>>],
     webviews |-> [documents |-> <<>>, active_document |-> <<>>],
     should_exit |-> TRUE,
     active_model |-> <<>>,
     conversation_history |-> <<>>,
     stored_values |-> <<>>]

\* LspAgent::default()
LspAgentDefault ==
    [requests |-> <<>>,
     responses |-> <<>>,
     text_documents |-> DocumentManagerDefault,
     webviews |-> DocumentManagerDefault,
     should_exit |-> FALSE,
     active_model |-> None,
     conversation_history |-> <<>>,
     stored_values |-> EmptyMap]

\* AgentRequest::Inference { content, app_id }
RequestInference(content, app_id) ==
    [variant |-> "Inference", content |-> content, app_id |-> app_id]

\* AgentResponse::Inference { app_id, content }
ResponseInference(app_id, content) ==
    [variant |-> "Inference", id |-> app_id, content |-> content]

\* AgentResponse::WebApp { id, content }
ResponseWebApp(id, content) ==
    [variant |-> "WebApp", id |-> id, content |-> content]

\* ConversationFragment::User / ::Assistant
User(text) == [role |-> "user", content |-> text]
Assistant(text) == [role |-> "assistant", content |-> text]

\* AgentResponse::Chat(String)
ResponseChat(text) == [variant |-> "Chat", content |-> text]

----------------------------------------------------------------------------
(* Reconcile and Hydrate as derived for the document types: a struct is a
   map of its fields, an enum variant a map with the variant name as its
   only key, a Vec a list, a HashMap a map, None the null value *)

Str(text) == [t |-> "str", v |-> text]
Bool(b) == [t |-> "bool", v |-> b]
Null == [t |-> "null"]
Map(m) == [t |-> "map", m |-> m]
List(l) == [t |-> "list", l |-> l]

\* a map with one key
Tagged(tag, node) == Map([k \in {tag} |-> node])
IsTagged(node, tag) == node.t = "map" /\ DOMAIN node.m = {tag}

IsStruct(node, fields) == node.t = "map" /\ DOMAIN node.m = fields

HydrateError == Err("unexpected value")

hydrate_String(node) == IF node.t = "str" THEN Ok(node.v) ELSE HydrateError
hydrate_bool(node) == IF node.t = "bool" THEN Ok(node.v) ELSE HydrateError

\* AgentRequest
reconcile_AgentRequest(r) ==
    Tagged("Inference", Map([content |-> Str(r.content), app_id |-> Str(r.app_id)]))

hydrate_AgentRequest(node) ==
    IF /\ IsTagged(node, "Inference")
       /\ IsStruct(node.m["Inference"], {"content", "app_id"})
       /\ hydrate_String(node.m["Inference"].m["content"]).ok
       /\ hydrate_String(node.m["Inference"].m["app_id"]).ok
    THEN Ok(RequestInference(node.m["Inference"].m["content"].v,
                             node.m["Inference"].m["app_id"].v))
    ELSE HydrateError

\* AgentResponse
reconcile_AgentResponse(r) ==
    CASE r.variant = "Chat" -> Tagged("Chat", Str(r.content))
      [] r.variant = "Inference" ->
            Tagged("Inference", Map([app_id |-> Str(r.id), content |-> Str(r.content)]))
      [] r.variant = "WebApp" ->
            Tagged("WebApp", Map([id |-> Str(r.id), content |-> Str(r.content)]))

hydrate_AgentResponse(node) ==
    IF IsTagged(node, "Chat") /\ hydrate_String(node.m["Chat"]).ok
    THEN Ok(ResponseChat(node.m["Chat"].v))
    ELSE IF /\ IsTagged(node, "Inference")
            /\ IsStruct(node.m["Inference"], {"app_id", "content"})
            /\ hydrate_String(node.m["Inference"].m["app_id"]).ok
            /\ hydrate_String(node.m["Inference"].m["content"]).ok
    THEN Ok(ResponseInference(node.m["Inference"].m["app_id"].v,
                              node.m["Inference"].m["content"].v))
    ELSE IF /\ IsTagged(node, "WebApp")
            /\ IsStruct(node.m["WebApp"], {"id", "content"})
            /\ hydrate_String(node.m["WebApp"].m["id"]).ok
            /\ hydrate_String(node.m["WebApp"].m["content"]).ok
    THEN Ok(ResponseWebApp(node.m["WebApp"].m["id"].v,
                           node.m["WebApp"].m["content"].v))
    ELSE HydrateError

\* ConversationFragment
reconcile_ConversationFragment(f) ==
    IF f.role = "user" THEN Tagged("User", Str(f.content))
                       ELSE Tagged("Assistant", Str(f.content))

hydrate_ConversationFragment(node) ==
    IF IsTagged(node, "User") /\ hydrate_String(node.m["User"]).ok
    THEN Ok(User(node.m["User"].v))
    ELSE IF IsTagged(node, "Assistant") /\ hydrate_String(node.m["Assistant"]).ok
    THEN Ok(Assistant(node.m["Assistant"].v))
    ELSE HydrateError

\* DocumentContent
reconcile_DocumentContent(c) == Map([text |-> Str(c.text)])

hydrate_DocumentContent(node) ==
    IF IsStruct(node, {"text"}) /\ hydrate_String(node.m["text"]).ok
    THEN Ok(DocumentContent(node.m["text"].v))
    ELSE HydrateError

\* Uri; the model keeps the text of a Uri only
reconcile_Uri(u) == Map([value |-> Str(u)])

hydrate_Uri(node) ==
    IF IsStruct(node, {"value"}) /\ hydrate_String(node.m["value"]).ok
    THEN Ok(node.m["value"].v)
    ELSE HydrateError

\* StoredValue
reconcile_StoredValue(v) ==
    Map([value |-> Str(v.value), description |-> Str(v.description)])

hydrate_StoredValue(node) ==
    IF /\ IsStruct(node, {"value", "description"})
       /\ hydrate_String(node.m["value"]).ok
       /\ hydrate_String(node.m["description"]).ok
    THEN Ok([value |-> node.m["value"].v, description |-> node.m["description"].v])
    ELSE HydrateError

\* the types of the items of a Vec, a HashMap or an Option
reconcile_item(kind, value) ==
    CASE kind = "String" -> Str(value)
      [] kind = "AgentRequest" -> reconcile_AgentRequest(value)
      [] kind = "AgentResponse" -> reconcile_AgentResponse(value)
      [] kind = "ConversationFragment" -> reconcile_ConversationFragment(value)
      [] kind = "DocumentContent" -> reconcile_DocumentContent(value)
      [] kind = "Uri" -> reconcile_Uri(value)
      [] kind = "StoredValue" -> reconcile_StoredValue(value)

hydrate_item(kind, node) ==
    CASE kind = "String" -> hydrate_String(node)
      [] kind = "AgentRequest" -> hydrate_AgentRequest(node)
      [] kind = "AgentResponse" -> hydrate_AgentResponse(node)
      [] kind = "ConversationFragment" -> hydrate_ConversationFragment(node)
      [] kind = "DocumentContent" -> hydrate_DocumentContent(node)
      [] kind = "Uri" -> hydrate_Uri(node)
      [] kind = "StoredValue" -> hydrate_StoredValue(node)

reconcile_Vec(seq, kind) == List([i \in DOMAIN seq |-> reconcile_item(kind, seq[i])])

\* a hydrate of a list that yields the items from the last to the first
hydrate_Vec_reversed(node, kind) ==
    IF node.t = "list" /\ \A i \in DOMAIN node.l : hydrate_item(kind, node.l[i]).ok
    THEN Ok([i \in DOMAIN node.l |->
                hydrate_item(kind, node.l[Len(node.l) + 1 - i]).text])
    ELSE HydrateError

hydrate_Vec(node, kind) ==
    IF node.t = "list" /\ \A i \in DOMAIN node.l : hydrate_item(kind, node.l[i]).ok
    THEN Ok([i \in DOMAIN node.l |-> hydrate_item(kind, node.l[i]).text])
    ELSE HydrateError

reconcile_HashMap(m, kind) == Map([k \in DOMAIN m |-> reconcile_item(kind, m[k])])

hydrate_HashMap(node, kind) ==
    IF node.t = "map" /\ \A k \in DOMAIN node.m : hydrate_item(kind, node.m[k]).ok
    THEN Ok([k \in DOMAIN node.m |-> hydrate_item(kind, node.m[k]).text])
    ELSE HydrateError

reconcile_Option(o, kind) == IF IsSome(o) THEN reconcile_item(kind, Unwrap(o)) ELSE Null

hydrate_Option(node, kind) ==
    IF node.t = "null" THEN Ok(None)
    ELSE IF hydrate_item(kind, node).ok THEN Ok(Some(hydrate_item(kind, node).text))
    ELSE HydrateError

\* DocumentManager
reconcile_DocumentManager(m) ==
    Map([documents |-> reconcile_HashMap(m.documents, "DocumentContent"),
         active_document |-> reconcile_Option(m.active_document, "Uri")])

hydrate_DocumentManager(node) ==
    IF /\ IsStruct(node, {"documents", "active_document"})
       /\ hydrate_HashMap(node.m["documents"], "DocumentContent").ok
       /\ hydrate_Option(node.m["active_document"], "Uri").ok
    THEN Ok([documents |->
                hydrate_HashMap(node.m["documents"], "DocumentContent").text,
             active_document |->
                hydrate_Option(node.m["active_document"], "Uri").text])
    ELSE HydrateError

LspAgentFields ==
    {"requests", "responses", "text_documents", "webviews", "should_exit",
     "active_model", "conversation_history", "stored_values"}

\* LspAgent
reconcile_LspAgent(a) ==
    Map([requests |-> reconcile_Vec(a.requests, "AgentRequest"),
         responses |-> reconcile_Vec(a.responses, "AgentResponse"),
         text_documents |-> reconcile_DocumentManager(a.text_documents),
         webviews |-> reconcile_DocumentManager(a.webviews),
         should_exit |-> Bool(a.should_exit),
         active_model |-> reconcile_Option(a.active_model, "String"),
         conversation_history |->
            reconcile_Vec(a.conversation_history, "ConversationFragment"),
         stored_values |-> reconcile_HashMap(a.stored_values, "StoredValue")])

hydrate_LspAgent(node) ==
    IF /\ IsStruct(node, LspAgentFields)
       /\ hydrate_Vec(node.m["requests"], "AgentRequest").ok
       /\ hydrate_Vec(node.m["responses"], "AgentResponse").ok
       /\ hydrate_DocumentManager(node.m["text_documents"]).ok
       /\ hydrate_DocumentManager(node.m["webviews"]).ok
       /\ hydrate_bool(node.m["should_exit"]).ok
       /\ hydrate_Option(node.m["active_model"], "String").ok
       /\ hydrate_Vec(node.m["conversation_history"],
                      "ConversationFragment").ok
       /\ hydrate_HashMap(node.m["stored_values"], "StoredValue").ok
    THEN Ok([requests |-> hydrate_Vec(node.m["requests"], "AgentRequest").text,
             responses |->
                hydrate_Vec(node.m["responses"], "AgentResponse").text,
             text_documents |-> hydrate_DocumentManager(node.m["text_documents"]).text,
             webviews |-> hydrate_DocumentManager(node.m["webviews"]).text,
             should_exit |-> node.m["should_exit"].v,
             active_model |->
                hydrate_Option(node.m["active_model"], "String").text,
             conversation_history |->
                hydrate_Vec(node.m["conversation_history"],
                            "ConversationFragment").text,
             stored_values |->
                hydrate_HashMap(node.m["stored_values"], "StoredValue").text])
    ELSE HydrateError

Kinds ==
    {"LspAgent", "AgentRequest", "AgentResponse", "ConversationFragment",
     "DocumentManager", "StoredValue"}

\* reconcile(&mut doc, &value) at the root of the document
reconcile(kind, value) ==
    CASE kind = "LspAgent" -> reconcile_LspAgent(value)
      [] kind = "AgentRequest" -> reconcile_AgentRequest(value)
      [] kind = "AgentResponse" -> reconcile_AgentResponse(value)
      [] kind = "ConversationFragment" -> reconcile_ConversationFragment(value)
      [] kind = "DocumentManager" -> reconcile_DocumentManager(value)
      [] kind = "StoredValue" -> reconcile_StoredValue(value)

\* hydrate::<T>(&doc)
hydrate(kind, node) ==
    CASE kind = "LspAgent" -> hydrate_LspAgent(node)
      [] kind = "AgentRequest" -> hydrate_AgentRequest(node)
      [] kind = "AgentResponse" -> hydrate_AgentResponse(node)
      [] kind = "ConversationFragment" -> hydrate_ConversationFragment(node)
      [] kind = "DocumentManager" -> hydrate_DocumentManager(node)
      [] kind = "StoredValue" -> hydrate_StoredValue(node)

\* no value was reconciled
NoAutomerge == [kind |-> "none", written |-> None, tree |-> None, read |-> None]

----------------------------------------------------------------------------
(* Change notification of the replicated document.                         *)
(* obs[p] is the state of the changed() future of process p's watcher:     *)
(* "none" while the watcher runs a handler, "registered" once it waits in  *)
(* changed(), "resolved" once a commit happened after it registered.       *)

Procs == {"ctl", "web"}
Other(p) == IF p = "ctl" THEN "web" ELSE "ctl"

\* a commit resolves the observers registered in the committing process
Resolve(o, p) ==
    [w \in Procs |-> IF w = p /\ o[w] = "registered" THEN "resolved" ELSE o[w]]

\* the watcher of p goes back to changed()
Register(o, p) == [o EXCEPT ![p] = "registered"]

\* the watcher of p leaves changed() to run its handler
Unregister(o, p) == [o EXCEPT ![p] = "none"]

\* a commit by process p is sent to the other replica
Replicate(s, p) == [s EXCEPT ![Other(p)] = TRUE]

\* effect on the observers of a transaction by p that took d to d2; a
\* transaction that reconciles to no operation changes nothing
ObsAfter(o, p, d, d2) == IF d2 # d THEN Resolve(o, p) ELSE o
SyncAfter(s, p, d, d2) == IF d2 # d THEN Replicate(s, p) ELSE s

----------------------------------------------------------------------------
(* The inference engine (InferenceClient) and the texts around it *)


\* Texts the engine returns to a chat prompt.  The texts in braces stand for
\* JSON objects with the fields shown.
TxtAnswer == "{action:answer,message:hello}"
TxtAnswerBare == "{action:answer}"
TxtNothing == "{action:nothing}"
TxtLaunch == "{action:launch_app,app:<html>}"
TxtLaunchBare == "{action:launch_app}"
TxtListApps == "{action:list_apps}"
TxtListDocs == "{action:list_docs}"
TxtListValues == "{action:list_app_values}"
TxtUnknown == "{action:search_web}"
TxtPlain == "Hello, not JSON"

ChatTexts == {TxtAnswer, TxtAnswerBare, TxtNothing, TxtLaunch, TxtLaunchBare,
              TxtListApps, TxtListDocs, TxtListValues, TxtUnknown, TxtPlain}

ChatResults == {Ok(t) : t \in ChatTexts} \cup {Err("engine down")}

\* Results the engine returns to a mini-app inference request
AppResults == {Ok("42"), Err("engine down")}

ToolResponse(action, message, app) ==
    [action |-> action, message |-> message, app |-> app]

\* serde_json::from_str::<ToolResponse>: Some(parsed) or None on a parse error
from_str(response) ==
    CASE response = TxtAnswer -> Some(ToolResponse("answer", Some("hello"), None))
      [] response = TxtAnswerBare -> Some(ToolResponse("answer", None, None))
      [] response = TxtNothing -> Some(ToolResponse("nothing", None, None))
      [] response = TxtLaunch -> Some(ToolResponse("launch_app", None, Some("<html>")))
      [] response = TxtLaunchBare -> Some(ToolResponse("launch_app", None, None))
      [] response = TxtListApps -> Some(ToolResponse("list_apps", None, None))
      [] response = TxtListDocs -> Some(ToolResponse("list_docs", None, None))
      [] response = TxtListValues -> Some(ToolResponse("list_app_values", None, None))
      [] response = TxtUnknown -> Some(ToolResponse("search_web", None, None))
      [] OTHER -> None

\* call_inference handing the cause of a failure back as it is
call_inference_cause(result) == result.text

call_inference(result) ==
    IF result.ok THEN result.text ELSE "Error: " \o result.text

\* parse_tool_response keeping no text when the reply is not a tool response
parse_tool_response_no_text(response) ==
    LET r == from_str(response) IN
    IF IsSome(r) THEN Unwrap(r) ELSE ToolResponse("answer", None, None)

parse_tool_response(response) ==
    LET r == from_str(response) IN
    IF IsSome(r)
    THEN LET parsed == Unwrap(r) IN
         IF parsed.action = "answer" /\ parsed.message = None
         THEN [parsed EXCEPT !.message = Some(response)]
         ELSE parsed
    ELSE ToolResponse("answer", Some(response), None)

AppsRepeatMsg ==
    "App list was already provided, but the assistant requested it again without concluding."
DocsRepeatMsg ==
    "Document list was already provided, but the assistant requested it again without concluding."
ValuesRepeatMsg ==
    "Stored values list was already provided, but the assistant requested it again without concluding."
NoActionMsg == "No actionable response was produced. Please retry or rephrase."
AppsReason == "Assistant requested info on running apps."
DocsReason == "Assistant requested info on open documents."
ValuesReason == "Assistant requested info on stored values."

----------------------------------------------------------------------------
(* handle_chat_request: the tool-use loop of one chat turn *)

\* the orders in which a HashMap may iterate over the key set S
Orders(S) ==
    {f \in [1..Cardinality(S) -> S] : \A i, j \in DOMAIN f : f[i] = f[j] => i = j}

\* document URIs of the editor, in the order sort() gives them
Uris == <<"a.rs", "b.rs">>

InSeq(x, q) == \E i \in DOMAIN q : q[i] = x

collect_apps(manager, order) ==
    [i \in DOMAIN order |-> manager.documents[order[i]].text]

collect_docs(manager) ==
    LET sorted == SelectSeq(Uris, LAMBDA u : u \in DOMAIN manager.documents)
        active == manager.active_document
    IN [open_documents |->
            IF IsSome(active) /\ ~InSeq(Unwrap(active), sorted)
            THEN Append(sorted, Unwrap(active))
            ELSE sorted,
        active_document |-> active]

\* a collect_stored_values that copies the value next to the description
collect_stored_values_with_value(values, order) ==
    [i \in DOMAIN order |->
        [key |-> order[i], description |-> values[order[i]].description,
         value |-> values[order[i]].value]]

collect_stored_values(values, order) ==
    [i \in DOMAIN order |->
        [key |-> order[i], description |-> values[order[i]].description]]

\* prompts::build_web_request: the fields of the request given to the engine
build_web_request(history, latest_user, apps, docs, stored_values) ==
    [history |-> history,
     latest_user |-> latest_user,
     apps |-> apps,
     docs |-> docs,
     stored_values |-> stored_values]

\* prompts.rs: the request as a serde struct and as the JSON object written
\* by serde_json::to_string_pretty (a field skipped when it is None)
WEB_ENVIRONMENT_SYSTEM_PROMPT == "You are an expert web developer assistant"
AppsNote == "The app list below is provided because you requested running apps."
DocsNote == "The document list below is provided because you requested open documents."

\* the match of render_history on one ConversationFragment
HistoryItem(fragment) ==
    CASE fragment.role = "assistant" -> [role |-> "assistant", content |-> fragment.content]
      [] fragment.role = "user" -> [role |-> "user", content |-> fragment.content]

\* a render_history that lists the newest fragment first
render_history_newest_first(history, include_apps_marker, include_docs_marker) ==
    [i \in DOMAIN history |-> HistoryItem(history[Len(history) + 1 - i])]

render_history(history, include_apps_marker, include_docs_marker) ==
    LET items == [i \in DOMAIN history |-> HistoryItem(history[i])]
        with_apps == IF include_apps_marker
                     THEN Append(items, [role |-> "assistant", content |-> AppsReason])
                     ELSE items
    IN IF include_docs_marker
       THEN Append(with_apps, [role |-> "assistant", content |-> DocsReason])
       ELSE with_apps

\* the two copies of the builder differ in the markers they ask for:
\* src/agent/src/prompts.rs passes (false, false), the prompts crate passes
\* (apps.is_some(), docs.is_some())
Crates == {"agent", "prompts"}

WebRequest(crate, history, latest_user, apps, docs) ==
    [system |-> Some(WEB_ENVIRONMENT_SYSTEM_PROMPT),
     history |-> Some(IF crate = "prompts"
                      THEN render_history(history, IsSome(apps), IsSome(docs))
                      ELSE render_history(history, FALSE, FALSE)),
     latest_user |-> Some(latest_user),
     apps |-> apps,
     apps_note |-> IF IsSome(apps) THEN Some(AppsNote) ELSE None,
     open_documents |-> IF IsSome(docs) THEN Some(Unwrap(docs).open_documents) ELSE None,
     active_document |-> IF IsSome(docs) THEN Unwrap(docs).active_document ELSE None,
     docs_note |-> IF IsSome(docs) THEN Some(DocsNote) ELSE None]

\* serde_json::to_string_pretty(&request): the object with the fields serde
\* writes, `skip_serializing_if = "Option::is_none"` leaving a None field out
to_string_pretty(value) ==
    [f \in {g \in DOMAIN value : IsSome(value[g])} |-> Unwrap(value[f])]

\* no prompt was built
NoPrompt == [built |-> FALSE]

\* chat while no turn runs
NoChat == [active |-> FALSE]

\* locals of handle_chat_request after the document was read
ChatLocals(chat_req, d, app_order, value_order) ==
    [active |-> TRUE,
     latest_user |-> chat_req.content,
     model_hint |-> chat_req.model,
     responder |-> chat_req.responder,
     history |-> d.conversation_history,
     running_apps |-> collect_apps(d.webviews, app_order),
     docs_info |-> collect_docs(d.text_documents),
     stored_values_info |-> collect_stored_values(d.stored_values, value_order),
     initial_history_len |-> Len(d.conversation_history),
     apps_payload |-> None,
     docs_payload |-> None,
     stored_values_payload |-> None,
     response_message |-> None,
     launched_app |-> None,
     did_nothing |-> FALSE,
     current_prompt_user |-> chat_req.content,
     pushed_user_message |-> FALSE,
     calls |-> 0,
     replies |-> <<>>,
     request_text |-> None,
     broke |-> FALSE]

\* top of the loop body: build the prompt and call the engine
CallEngine(c) ==
    [c EXCEPT !.calls = @ + 1,
              !.request_text = Some(build_web_request(c.history,
                                        c.current_prompt_user, c.apps_payload,
                                        c.docs_payload, c.stored_values_payload))]

\* the context request recorded without noting that the user's text is
\* in the transcript
NextTurn_no_flag(c, reason) ==
    LET push == ~c.pushed_user_message /\ c.current_prompt_user # ""
        h == IF push THEN Append(c.history, User(c.current_prompt_user))
                     ELSE c.history
    IN [c EXCEPT !.history = Append(h, Assistant(reason)),
                 !.current_prompt_user = IF push THEN "" ELSE @]

\* the context request recorded without clearing the prompt's user text
NextTurn_keep_user(c, reason) ==
    LET push == ~c.pushed_user_message /\ c.current_prompt_user # ""
        h == IF push THEN Append(c.history, User(c.current_prompt_user))
                     ELSE c.history
    IN [c EXCEPT !.history = Append(h, Assistant(reason)),
                 !.pushed_user_message = IF push THEN TRUE ELSE @]

\* `if let Some(reason) = next_turn_reason`: record the context request
NextTurn(c, reason) ==
    LET push == ~c.pushed_user_message /\ c.current_prompt_user # ""
        h == IF push THEN Append(c.history, User(c.current_prompt_user))
                     ELSE c.history
    IN [c EXCEPT !.history = Append(h, Assistant(reason)),
                 !.current_prompt_user = IF push THEN "" ELSE @,
                 !.pushed_user_message = IF push THEN TRUE ELSE @]

Break(c) == [c EXCEPT !.broke = TRUE]

\* the other actions: `_ => { response_message = Some(tool_response_str); }`
OtherAction(c, tool_response_str) ==
    [c EXCEPT !.response_message = Some(tool_response_str)]

\* a repeated context request that sets the message and stays in the loop
RepeatedRequest_no_break(c, message) ==
    [c EXCEPT !.response_message = Some(message)]

\* a context request for a block that was already supplied in this turn
RepeatedRequest(c, message) ==
    Break([c EXCEPT !.response_message = Some(message)])

\* the match on tool_response.action, for the engine's reply text
Dispatch(c, tool_response_str) ==
    LET tool_response == parse_tool_response(tool_response_str)
        action == tool_response.action
    IN CASE action = "answer" ->
                Break([c EXCEPT !.response_message = tool_response.message])
         [] action = "nothing" ->
                Break([c EXCEPT !.did_nothing = TRUE])
         [] action = "launch_app" ->
                Break([c EXCEPT !.launched_app = tool_response.app])
         [] action = "list_apps" ->
                IF IsSome(c.apps_payload)
                THEN RepeatedRequest(c, AppsRepeatMsg)
                ELSE NextTurn([c EXCEPT !.apps_payload = Some(c.running_apps)],
                              AppsReason)
         [] action = "list_docs" ->
                IF IsSome(c.docs_payload)
                THEN RepeatedRequest(c, DocsRepeatMsg)
                ELSE NextTurn([c EXCEPT !.docs_payload = Some(c.docs_info)],
                              DocsReason)
         [] action = "list_app_values" ->
                IF IsSome(c.stored_values_payload)
                THEN RepeatedRequest(c, ValuesRepeatMsg)
                ELSE NextTurn([c EXCEPT !.stored_values_payload =
                                            Some(c.stored_values_info)],
                              ValuesReason)
         [] OTHER -> OtherAction(c, tool_response_str)

\* a loop over 0..=max_iterations
LoopEnded_inclusive(c, budget) == c.broke \/ c.calls > budget

\* `for _ in 0..max_iterations` has run out, or the body broke out of it
LoopEnded(c, budget) == c.broke \/ c.calls >= budget

\* no fallback after the loop
Fallback_none(c) == c

\* the fallback after the loop
Fallback(c) ==
    IF ~c.did_nothing /\ c.launched_app = None /\ c.response_message = None
    THEN [c EXCEPT !.response_message = Some(NoActionMsg)]
    ELSE c

\* the commit without the test that the user's text is not empty
ChatCommit_any_user(d, c) ==
    LET new_fragments ==
            SubSeq(c.history, c.initial_history_len + 1, Len(c.history))
        h1 == d.conversation_history \o new_fragments
        h2 == IF /\ ~c.pushed_user_message
                 /\ (IsSome(c.launched_app) \/ IsSome(c.response_message))
              THEN Append(h1, User(c.latest_user))
              ELSE h1
        h3 == IF IsSome(c.response_message)
              THEN Append(h2, Assistant(Unwrap(c.response_message)))
              ELSE h2
    IN [d EXCEPT !.active_model = IF IsSome(c.model_hint) THEN c.model_hint ELSE @,
                 !.conversation_history = h3]

\* a commit that writes back the history the turn read at its start
ChatCommit_local_history(d, c) ==
    LET h1 == c.history
        h2 == IF /\ ~c.pushed_user_message
                 /\ c.latest_user # ""
                 /\ (IsSome(c.launched_app) \/ IsSome(c.response_message))
              THEN Append(h1, User(c.latest_user))
              ELSE h1
        h3 == IF IsSome(c.response_message)
              THEN Append(h2, Assistant(Unwrap(c.response_message)))
              ELSE h2
    IN [d EXCEPT !.active_model = IF IsSome(c.model_hint) THEN c.model_hint ELSE @,
                 !.conversation_history = h3]

\* a commit that stores the hint of the turn whether it has one or not
ChatCommit_clear_model(d, c) ==
    LET new_fragments ==
            SubSeq(c.history, c.initial_history_len + 1, Len(c.history))
        h1 == d.conversation_history \o new_fragments
        h2 == IF /\ ~c.pushed_user_message
                 /\ c.latest_user # ""
                 /\ (IsSome(c.launched_app) \/ IsSome(c.response_message))
              THEN Append(h1, User(c.latest_user))
              ELSE h1
        h3 == IF IsSome(c.response_message)
              THEN Append(h2, Assistant(Unwrap(c.response_message)))
              ELSE h2
    IN [d EXCEPT !.active_model = c.model_hint,
                 !.conversation_history = h3]

\* the transaction that commits the turn to the document
ChatCommit(d, c) ==
    LET new_fragments ==
            SubSeq(c.history, c.initial_history_len + 1, Len(c.history))
        h1 == d.conversation_history \o new_fragments
        h2 == IF /\ ~c.pushed_user_message
                 /\ c.latest_user # ""
                 /\ (IsSome(c.launched_app) \/ IsSome(c.response_message))
              THEN Append(h1, User(c.latest_user))
              ELSE h1
        h3 == IF IsSome(c.response_message)
              THEN Append(h2, Assistant(Unwrap(c.response_message)))
              ELSE h2
    IN [d EXCEPT !.active_model = IF IsSome(c.model_hint) THEN c.model_hint ELSE @,
                 !.conversation_history = h3]

\* launch_app writing the response only
launch_app_response_only(d, id, content) ==
    [d EXCEPT !.responses = Append(@, ResponseWebApp(id, content))]

\* DocWebSink::launch_app: one transaction writes the entry and the response
launch_app(d, id, content) ==
    [d EXCEPT !.webviews.documents = MapInsert(@, id, DocumentContent(content)),
              !.responses = Append(@, ResponseWebApp(id, content))]

\* the reply to a mini-app pushed as a Chat response
handle_inference_response_chat(d, app_id, content) ==
    [d EXCEPT !.responses = Append(@, [variant |-> "Chat", content |-> content])]

\* DocWebSink::handle_inference_response
handle_inference_response(d, app_id, content) ==
    [d EXCEPT !.responses = Append(@, ResponseInference(app_id, content))]

\* format!("app-{}", Uuid::new_v4()): the n-th identifier drawn
AppId(n) == "app-" \o ToString(n)

----------------------------------------------------------------------------
(* The control process: orchestrator task, chat callers, shutdown *)

UserTexts == {"", "hi"}
ModelHints == {None, Some("fast")}

\* responder.send(value) followed by the caller's rx.await.ok().flatten();
\* calls records how many engine calls the turn made
Respond(cs, id, value, calls) ==
    [cs EXCEPT ![id].sent = Append(@, value),
               ![id].returned = TRUE,
               ![id].result = value,
               ![id].calls = calls]

\* the queued requests kept alive when the orchestrator ends
DropQueued_keep(cs, queue) == cs

\* the receiver of the channel is dropped: every queued caller gets None
DropQueued(cs, queue) ==
    [i \in DOMAIN cs |->
        IF \E k \in DOMAIN queue : queue[k].responder = i
        THEN [cs[i] EXCEPT !.returned = TRUE, !.result = None]
        ELSE cs[i]]

\* check_agent_state taking the newest request instead of the oldest
check_agent_state_newest(d) ==
    LET n == Len(d.requests)
        agent_ == IF n > 0 THEN [d EXCEPT !.requests = SubSeq(@, 1, n - 1)] ELSE d
    IN [doc |-> agent_,
        should_exit |-> agent_.should_exit,
        req |-> IF n > 0 THEN Some(d.requests[n]) ELSE None,
        active_model |-> agent_.active_model]

\* check_agent_state: pop the head request, commit if one was popped
check_agent_state(d) ==
    LET req == IF d.requests # <<>> THEN Some(Head(d.requests)) ELSE None
        agent_ == IF d.requests # <<>> THEN [d EXCEPT !.requests = Tail(@)] ELSE d
    IN [doc |-> agent_,
        should_exit |-> agent_.should_exit,
        req |-> req,
        active_model |-> agent_.active_model]

\* AutomergeAgent::chat_request: send on chat_tx, then await the reply
ChatCall(content, model) ==
    /\ env.chats > 0
    /\ env' = [env EXCEPT !.chats = @ - 1]
    /\ LET id == Len(callers) + 1
           caller == [content |-> content, model |-> model, sent |-> <<>>,
                      returned |-> FALSE, result |-> None, calls |-> 0]
       IN IF ctl.pc = "done"
          THEN /\ callers' = Append(callers, [caller EXCEPT !.returned = TRUE])
               /\ chat_tx' = chat_tx
          ELSE /\ callers' = Append(callers, caller)
               /\ chat_tx' = Append(chat_tx, [content |-> content, model |-> model,
                                              responder |-> id])
    /\ UNCHANGED <<doc, ctl, chat, max_iterations, am, boot, request, router, web, obs, sync, agent, log>>

\* select!: `changed = main_task_doc_handle.changed()`
CtlChanged ==
    /\ ctl.pc = "select"
    /\ obs["ctl"] = "resolved"
    /\ LET r == check_agent_state(doc) IN
       /\ doc' = r.doc
       /\ sync' = SyncAfter(sync, "ctl", doc, r.doc)
       /\ log' = [log EXCEPT
                    !.removed = IF IsSome(r.req) THEN Append(@, Unwrap(r.req))
                                                 ELSE @,
                    \* the active_model of the document the request left
                    !.dequeue_model = IF IsSome(r.req)
                                      THEN Append(@, doc.active_model) ELSE @,
                    !.order = IF r.should_exit
                              THEN @ \o <<"notify_shutdown", "repo_stopped">>
                              ELSE @]
       /\ IF r.should_exit
          THEN \* perform_shutdown, then break: the task ends, chat_rx is dropped
               /\ ctl' = [ctl EXCEPT !.pc = "done", !.pending_request = r.req,
                                     !.active_model = r.active_model,
                                     !.notified_shutdown = TRUE,
                                     !.repo_stopped = TRUE]
               /\ obs' = Unregister(obs, "ctl")
               /\ callers' = DropQueued(callers, chat_tx)
               /\ chat_tx' = <<>>
          ELSE /\ IF IsSome(r.req)
                  THEN /\ ctl' = [ctl EXCEPT !.pc = "inference",
                                             !.pending_request = r.req,
                                             !.active_model = r.active_model]
                       /\ obs' = Unregister(obs, "ctl")
                  ELSE /\ ctl' = ctl
                       /\ obs' = Register(obs, "ctl")
               /\ UNCHANGED <<callers, chat_tx>>
    /\ UNCHANGED <<chat, max_iterations, am, boot, request, router, web, agent, env>>

\* handle_inference_request: the engine has replied to a mini-app request
InferenceReply(result) ==
    /\ ctl.pc = "inference"
    /\ LET d2 == handle_inference_response(doc, Unwrap(ctl.pending_request).app_id,
                                           call_inference(result)) IN
       /\ doc' = d2
       /\ sync' = SyncAfter(sync, "ctl", doc, d2)
    /\ ctl' = [ctl EXCEPT !.pc = "select", !.pending_request = None,
                          !.active_model = None]
    /\ obs' = Register(obs, "ctl")
    /\ log' = [log EXCEPT
                 !.responded =
                    Append(@, ResponseInference(Unwrap(ctl.pending_request).app_id,
                                                call_inference(result))),
                 !.resp_pushed = Append(@, doc'.responses[Len(doc'.responses)]),
                 \* the model argument of call_inference
                 !.engine_model = Append(@, ctl.active_model)]
    /\ UNCHANGED <<chat, chat_tx, callers, max_iterations, am, boot, request, router, web, agent, env>>

\* end of handle_chat_request: fallback, commit, then launch or reply
Finish(c) ==
    LET f == Fallback(c)
        d2 == ChatCommit(doc, f)
    IN /\ doc' = d2
       /\ sync' = SyncAfter(sync, "ctl", doc, d2)
       /\ IF IsSome(f.launched_app)
          THEN /\ chat' = f
               /\ ctl' = [ctl EXCEPT !.pc = "chat_launch"]
               /\ obs' = Unregister(obs, "ctl")
               /\ callers' = callers
          ELSE /\ chat' = NoChat
               /\ ctl' = [ctl EXCEPT !.pc = "select"]
               /\ obs' = Register(obs, "ctl")
               /\ callers' = Respond(callers, f.responder, f.response_message,
                                             f.calls)
       \* hints records the model hint of every committed turn
       /\ log' = [log EXCEPT !.hints = Append(@, f.model_hint)]

\* select!: `Some(chat_req) = chat_rx.recv()`, up to the first engine call
ChatRecv ==
    /\ ctl.pc = "select"
    /\ chat_tx # <<>>
    /\ chat_tx' = Tail(chat_tx)
    /\ \E app_order \in Orders(DOMAIN doc.webviews.documents),
          value_order \in Orders(DOMAIN doc.stored_values) :
          LET c == ChatLocals(Head(chat_tx), doc, app_order, value_order) IN
          IF LoopEnded(c, max_iterations)
          THEN Finish(c)
          ELSE /\ chat' = CallEngine(c)
               /\ ctl' = [ctl EXCEPT !.pc = "chat"]
               /\ obs' = Unregister(obs, "ctl")
               /\ UNCHANGED <<doc, sync, callers, log>>
    /\ UNCHANGED <<max_iterations, am, boot, request, router, web, agent, env>>

\* the engine has replied to the prompt of a chat turn
ChatReply(result) ==
    /\ ctl.pc = "chat"
    /\ LET tool_response_str == call_inference(result)
           \* replies records the actions the engine chose in this turn
           seen == [chat EXCEPT !.replies =
                        Append(@, parse_tool_response(tool_response_str).action)]
           c == Dispatch(seen, tool_response_str)
       IN
       IF LoopEnded(c, max_iterations)
       THEN Finish(c)
       ELSE /\ chat' = CallEngine(c)
            /\ UNCHANGED <<doc, sync, ctl, obs, callers, log>>
    /\ UNCHANGED <<chat_tx, max_iterations, am, boot, request, router, web, agent, env>>

\* `if let Some(app) = launched_app_for_doc`, then the reply to the caller
ChatLaunch ==
    /\ ctl.pc = "chat_launch"
    /\ LET d2 == launch_app(doc, AppId(ctl.uuids + 1), Unwrap(chat.launched_app)) IN
       /\ doc' = d2
       /\ sync' = SyncAfter(sync, "ctl", doc, d2)
    /\ callers' = Respond(callers, chat.responder, chat.response_message,
                          chat.calls)
    /\ chat' = NoChat
    /\ ctl' = [ctl EXCEPT !.pc = "select", !.uuids = @ + 1]
    /\ obs' = Register(obs, "ctl")
    /\ log' = [log EXCEPT
                 !.resp_pushed = Append(@, doc'.responses[Len(doc'.responses)])]
    /\ UNCHANGED <<chat_tx, max_iterations, am, boot, request, router, web, agent, env>>

\* AutomergeAgent::shutdown: commit should_exit
ShutdownCall ==
    /\ agent.pc = "idle"
    /\ LET d2 == [doc EXCEPT !.should_exit = TRUE] IN
       /\ doc' = d2
       /\ obs' = ObsAfter(obs, "ctl", doc, d2)
       /\ sync' = SyncAfter(sync, "ctl", doc, d2)
    /\ agent' = [agent EXCEPT !.pc = "join"]
    /\ log' = [log EXCEPT !.order = Append(@, "should_exit")]
    /\ UNCHANGED <<ctl, chat, chat_tx, callers, max_iterations, am, boot, request, router, web, env>>

\* shutdown going on without joining the orchestrator task
ShutdownJoin_no_wait ==
    /\ agent.pc = "join"
    /\ agent' = [agent EXCEPT !.pc = "kill"]
    /\ log' = [log EXCEPT !.order = Append(@, "joined")]
    /\ UNCHANGED <<doc, ctl, chat, chat_tx, callers, max_iterations, am, boot, request, router, web,
                   obs, sync, env>>

\* AutomergeAgent::shutdown: `task.await` returns once the orchestrator ended
ShutdownJoin ==
    /\ agent.pc = "join"
    /\ ctl.pc = "done"
    /\ agent' = [agent EXCEPT !.pc = "kill"]
    /\ log' = [log EXCEPT !.order = Append(@, "joined")]
    /\ UNCHANGED <<doc, ctl, chat, chat_tx, callers, max_iterations, am, boot, request, router, web,
                   obs, sync, env>>

\* AutomergeAgent::shutdown: kill the rendering process, wait for it, return
ShutdownKill ==
    /\ agent.pc = "kill"
    /\ agent' = [agent EXCEPT !.pc = "returned"]
    /\ router' = [router EXCEPT !.pc = "killed"]
    /\ web' = [web EXCEPT !.alive = FALSE]
    /\ obs' = Unregister(obs, "web")
    /\ log' = [log EXCEPT !.order = @ \o <<"killed", "returned">>]
    /\ UNCHANGED <<doc, ctl, chat, chat_tx, callers, max_iterations, am, boot, request, sync, env>>

----------------------------------------------------------------------------
(* The rendering process: response router, WebRuntime, backend task *)

Contents == {"q1", "q2"}

\* WebRuntime::launch_app: post AgentEvent::WebApp to the event loop
runtime_launch_app(w, id, content) ==
    [w EXCEPT !.events = Append(@, [id |-> id, content |-> content])]

\* WebRuntime::handle_inference_response: complete the oldest pending
\* responder of the app, or report that there is none
runtime_handle_inference_response(w, app_id, content) ==
    IF app_id \in DOMAIN w.pending
    THEN LET queue == w.pending[app_id] IN
         IF queue # <<>>
         THEN [w EXCEPT !.calls[Head(queue)].response = Some(content),
                        !.pending = IF Tail(queue) = <<>>
                                    THEN MapRemove(@, app_id)
                                    ELSE [@ EXCEPT ![app_id] = Tail(queue)]]
         ELSE w
    ELSE [w EXCEPT !.unknown = Append(@, app_id)]

\* WebRuntime::enqueue_inference_request
enqueue_inference_request(w, app_id, responder) ==
    [w EXCEPT !.pending =
        IF app_id \in DOMAIN @
        THEN [@ EXCEPT ![app_id] = Append(@, responder)]
        ELSE MapInsert(@, app_id, <<responder>>)]

\* handle_web_response
handle_web_response(w, resp) ==
    CASE resp.variant = "WebApp" -> runtime_launch_app(w, resp.id, resp.content)
      [] resp.variant = "Inference" ->
            runtime_handle_inference_response(w, resp.id, resp.content)
      [] OTHER -> w

\* DocWebAgent::app_inference_request
app_inference_request(d, content, app_id) ==
    [d EXCEPT !.requests = Append(@, RequestInference(content, app_id))]

\* a close_app that removes the entry and leaves the transcript alone
close_app_silent(d, app_id) ==
    [d EXCEPT !.webviews.documents = MapRemove(@, app_id)]

\* DocWebAgent::close_app
close_app(d, app_id) ==
    [d EXCEPT !.webviews.documents = MapRemove(@, app_id),
              !.conversation_history =
                    Append(@, Assistant("App closed: " \o app_id))]

\* take_response removing the newest response
take_response_last(d) ==
    [doc |-> IF d.responses # <<>>
             THEN [d EXCEPT !.responses = SubSeq(@, 1, Len(@) - 1)] ELSE d,
     resp |-> IF d.responses # <<>> THEN Some(d.responses[Len(d.responses)])
                                    ELSE None]

\* a take_response that removes the head request along with the response
take_response_and_request(d) ==
    [doc |-> IF d.responses # <<>>
             THEN [d EXCEPT !.responses = Tail(@),
                            !.requests = IF @ # <<>> THEN Tail(@) ELSE @]
             ELSE d,
     resp |-> IF d.responses # <<>> THEN Some(Head(d.responses)) ELSE None]

\* take_response: pop the head response, commit if one was popped
take_response(d) ==
    [doc |-> IF d.responses # <<>> THEN [d EXCEPT !.responses = Tail(@)] ELSE d,
     resp |-> IF d.responses # <<>> THEN Some(Head(d.responses)) ELSE None]

\* the read at the top of handle_web_doc_change
should_handle_response(d) ==
    d.responses # <<>> /\ Head(d.responses).variant # "Chat"

\* start_web_backend loop: changed() resolved, handle_web_doc_change reads
RouterChanged ==
    /\ router.pc = "waiting"
    /\ obs["web"] = "resolved"
    /\ IF doc.should_exit
       THEN /\ router' = [router EXCEPT !.pc = "done"]
            /\ web' = [web EXCEPT !.exit = TRUE]
            /\ obs' = Unregister(obs, "web")
       ELSE IF should_handle_response(doc)
            THEN /\ router' = [router EXCEPT !.pc = "take",
                                              !.head = Some(Head(doc.responses))]
                 /\ obs' = Unregister(obs, "web")
                 /\ web' = web
            ELSE /\ obs' = Register(obs, "web")
                 /\ UNCHANGED <<router, web>>
    /\ UNCHANGED <<doc, ctl, chat, chat_tx, callers, max_iterations, am, boot, request, sync, agent, log, env>>

\* handle_web_doc_change: take_response, then handle_web_response
RouterTake ==
    /\ router.pc = "take"
    /\ LET r == take_response(doc) IN
       /\ doc' = r.doc
       /\ sync' = SyncAfter(sync, "web", doc, r.doc)
       /\ web' = IF IsSome(r.resp) THEN handle_web_response(web, Unwrap(r.resp))
                                   ELSE web
       /\ log' = IF IsSome(r.resp)
                    THEN [log EXCEPT !.dispatched = Append(@, Unwrap(r.resp))]
                    ELSE log
    /\ router' = [router EXCEPT !.pc = "waiting", !.head = None]
    /\ obs' = Register(obs, "web")
    /\ UNCHANGED <<ctl, chat, chat_tx, callers, max_iterations, am, boot, request, agent, env>>

\* event loop: Event::UserEvent(AgentEvent::WebApp) creates the view
UiLaunch ==
    /\ web.alive
    /\ web.events # <<>>
    /\ web' = [web EXCEPT !.events = Tail(@),
                          !.views = @ \cup {Head(web.events).id}]
    /\ UNCHANGED <<doc, ctl, chat, chat_tx, callers, max_iterations, am, boot, request, router,
                   obs, sync, agent, log, env>>

\* a mini-app calls inference: handle_api_request pushes the request
ApiInference(app_id, content) ==
    /\ web.alive
    /\ web.backend = "idle"
    /\ app_id \in web.views
    /\ env.calls > 0
    /\ env' = [env EXCEPT !.calls = @ - 1]
    /\ LET d2 == app_inference_request(doc, content, app_id) IN
       /\ doc' = d2
       /\ obs' = ObsAfter(obs, "web", doc, d2)
       /\ sync' = SyncAfter(sync, "web", doc, d2)
    /\ web' = [web EXCEPT !.backend = "enqueue",
                          !.calls = Append(@, [app_id |-> app_id,
                                               content |-> content,
                                               response |-> None])]
    /\ log' = [log EXCEPT !.pushed = Append(@, RequestInference(content, app_id))]
    /\ UNCHANGED <<ctl, chat, chat_tx, callers, max_iterations, am, boot, request, router, agent>>

\* handle_api_request: the responder joins the pending queue of its app
ApiEnqueue ==
    /\ web.alive
    /\ web.backend = "enqueue"
    /\ web' = [enqueue_inference_request(web, web.calls[Len(web.calls)].app_id,
                                         Len(web.calls))
                  EXCEPT !.backend = "idle"]
    /\ UNCHANGED <<doc, ctl, chat, chat_tx, callers, max_iterations, am, boot, request, router,
                   obs, sync, agent, log, env>>

\* the window of an app is closed: handle_backend_command calls close_app
CloseApp(app_id) ==
    /\ web.alive
    /\ web.backend = "idle"
    /\ app_id \in web.views
    /\ LET d2 == close_app(doc, app_id) IN
       /\ doc' = d2
       /\ obs' = ObsAfter(obs, "web", doc, d2)
       /\ sync' = SyncAfter(sync, "web", doc, d2)
    /\ web' = [web EXCEPT !.views = @ \ {app_id}]
    /\ UNCHANGED <<ctl, chat, chat_tx, callers, max_iterations, am, boot, request, router, agent, log, env>>

\* run_backend: `_ = exit_rx.recv()` ends the backend loop
BackendExit ==
    /\ web.alive
    /\ web.exit
    /\ web.backend = "idle"
    /\ web' = [web EXCEPT !.backend = "stopped"]
    /\ UNCHANGED <<doc, ctl, chat, chat_tx, callers, max_iterations, am, boot, request, router,
                   obs, sync, agent, log, env>>

\* replication delivers the other process's commits to the replica of p
Deliver(p) ==
    /\ sync[p]
    /\ sync' = [sync EXCEPT ![p] = FALSE]
    /\ obs' = Resolve(obs, p)
    /\ UNCHANGED <<doc, ctl, chat, chat_tx, callers, max_iterations, am, boot, request, router,
                   web, agent, log, env>>

----------------------------------------------------------------------------
(* The editor's documents: did_open, did_change, did_close, read_document *)

\* AutomergeAgent::did_open and did_change: the same insert
did_open(d, uri, text) ==
    [d EXCEPT !.text_documents.documents = MapInsert(@, uri, DocumentContent(text))]

\* a did_change that ignores a URI that is not open
did_change_open_only(d, uri, text) ==
    IF uri \in DOMAIN d.text_documents.documents
    THEN [d EXCEPT !.text_documents.documents =
                        MapInsert(@, uri, DocumentContent(text))]
    ELSE d

did_change(d, uri, text) ==
    [d EXCEPT !.text_documents.documents = MapInsert(@, uri, DocumentContent(text))]

\* AutomergeAgent::did_close
did_close(d, uri) ==
    [d EXCEPT !.text_documents.documents = MapRemove(@, uri)]

\* AutomergeAgent::set_active_document
set_active_document(d, uri) ==
    [d EXCEPT !.text_documents.active_document = Some(uri)]

\* read_document looking the id up in both managers
read_document_any(d, uri) ==
    IF uri \in DOMAIN d.text_documents.documents
    THEN d.text_documents.documents[uri].text
    ELSE IF uri \in DOMAIN d.webviews.documents
         THEN d.webviews.documents[uri].text
         ELSE ""

\* DocWebAgent::read_document: get(&uri).map(text).unwrap_or_default()
read_document(d, uri) ==
    IF uri \in DOMAIN d.text_documents.documents
    THEN d.text_documents.documents[uri].text
    ELSE ""

Texts == {"", "fn main"}
EditorUris == {Uris[i] : i \in DOMAIN Uris}

\* a transaction of the editor-facing API on the control process
EditorCommit(d2) ==
    /\ env.edits > 0
    /\ env' = [env EXCEPT !.edits = @ - 1]
    /\ doc' = d2
    /\ obs' = ObsAfter(obs, "ctl", doc, d2)
    /\ sync' = SyncAfter(sync, "ctl", doc, d2)
    /\ UNCHANGED <<ctl, chat, chat_tx, callers, max_iterations, am, boot, request, router, web, agent>>

DidOpen(uri, text) ==
    /\ EditorCommit(did_open(doc, uri, text))
    /\ log' = [log EXCEPT !.written = MapInsert(@, uri, text),
                          !.live = MapInsert(@, uri, text)]

DidChange(uri, text) ==
    /\ EditorCommit(did_change(doc, uri, text))
    /\ log' = [log EXCEPT !.written = MapInsert(@, uri, text),
                          !.live = MapInsert(@, uri, text)]

DidClose(uri) ==
    /\ EditorCommit(did_close(doc, uri))
    \* live records the last text of every URI not closed since
    /\ log' = [log EXCEPT !.live = MapRemove(@, uri)]

SetActiveDocument(uri) ==
    /\ EditorCommit(set_active_document(doc, uri))
    /\ log' = log

\* a mini-app reads a document: handle_api_request calls read_document
ReadDocument(uri) ==
    /\ web.alive
    /\ web.backend = "idle"
    /\ web.views # {}
    /\ web' = [web EXCEPT !.read = Some([uri |-> uri, text |-> read_document(doc, uri)])]
    /\ UNCHANGED <<doc, ctl, chat, chat_tx, callers, max_iterations, am, boot, request, router,
                   obs, sync, agent, log, env>>

----------------------------------------------------------------------------
(* Stored values: the scratchpad a mini-app writes and reads through the
   rendering process *)

StoredValue(value, description) == [value |-> value, description |-> description]

\* a store_value that replaces the whole map by the one entry
store_value_only(d, key, value, description) ==
    [d EXCEPT !.stored_values = MapInsert(EmptyMap, key,
                                          StoredValue(value, description))]

\* a store_value that writes should_exit = false next to the value
store_value_clear_exit(d, key, value, description) ==
    [d EXCEPT !.stored_values = MapInsert(@, key, StoredValue(value, description)),
              !.should_exit = FALSE]

\* DocWebAgent::store_value: insert under the key, commit
store_value(d, key, value, description) ==
    [d EXCEPT !.stored_values = MapInsert(@, key, StoredValue(value, description))]

\* DocWebAgent::read_value: the value under the key, if any
read_value(d, key) ==
    IF key \in DOMAIN d.stored_values THEN Some(d.stored_values[key].value)
                                       ELSE None

Keys == {"k1", "k2"}
Values == {"v1", "v2"}
Descriptions == {"d1", "d2"}

\* handle_api_request, ApiRequest::StoreValue: store, then notify the event loop
StoreValue(key, value, description) ==
    /\ web.alive
    /\ web.backend = "idle"
    /\ web.views # {}
    /\ env.stores > 0
    /\ env' = [env EXCEPT !.stores = @ - 1]
    /\ LET d2 == store_value(doc, key, value, description) IN
       /\ doc' = d2
       /\ obs' = ObsAfter(obs, "web", doc, d2)
       /\ sync' = SyncAfter(sync, "web", doc, d2)
    /\ web' = [web EXCEPT !.storage_updated = Append(@, key)]
    \* stored records the last arguments of store_value for every key
    /\ log' = [log EXCEPT !.stored = MapInsert(@, key, StoredValue(value, description))]
    /\ UNCHANGED <<ctl, chat, chat_tx, callers, max_iterations, am, boot, request, router, agent>>

\* handle_api_request, ApiRequest::ReadValue
ReadValue(key) ==
    /\ web.alive
    /\ web.backend = "idle"
    /\ web.views # {}
    /\ web' = [web EXCEPT !.value = Some([key |-> key, value |-> read_value(doc, key)])]
    /\ UNCHANGED <<doc, ctl, chat, chat_tx, callers, max_iterations, am, boot, request, router,
                   obs, sync, agent, log, env>>

----------------------------------------------------------------------------
(* Peer bootstrap: the HTTP endpoint and the listener and connector tasks of
   the control process, the listener and the joiner (setup_web_doc) of the
   rendering process *)

PEER1_PORT == 2341
PEER2_PORT == 2342
DOC_ID_PORT == 2348

MaxPolls == 3      \* polls of the endpoint that are counted
MaxConnects == 3   \* outbound connection attempts that are counted

\* characters of a response body; a document id is made of IdChars
IdChars == {"d", "1"}
Whitespace == {" ", "\n"}

\* bodies the endpoint can answer with: the id as the control process
\* prints it, the id with white space around it, and what another program
\* holding the port may answer
DocIdBody == <<"d", "1">>
PaddedBody == <<" ", "d", "1", "\n">>
ForeignBodies == {<<>>, <<"<", "h", ">">>, <<"d", " ", "1">>}

\* str::trim
RECURSIVE TrimStart(_)
TrimStart(text) ==
    IF text # <<>> /\ Head(text) \in Whitespace THEN TrimStart(Tail(text))
                                                ELSE text

RECURSIVE TrimEnd(_)
TrimEnd(text) ==
    IF text # <<>> /\ text[Len(text)] \in Whitespace
    THEN TrimEnd(SubSeq(text, 1, Len(text) - 1))
    ELSE text

Trim(text) == TrimEnd(TrimStart(text))

\* str::parse::<DocumentId>: Ok for a non-empty text of id characters
parse(text) ==
    IF text # <<>> /\ \A i \in DOMAIN text : text[i] \in IdChars
    THEN Ok(text) ELSE Err("invalid document id")

\* who answers on DOC_ID_PORT in a run: the control process, another
\* program that holds the port, or nobody
Endpoints == {"control", "foreign", "none"}

\* a counter that stops counting at its bound
Count(n, max) == IF n < max THEN n + 1 ELSE n

\* the bootstrap of a rendering process that has joined
Joined ==
    [endpoint |-> "control", http |-> "serving",
     listener1 |-> "bound", listener2 |-> "bound",
     connector |-> "done", connects |-> 1,
     outgoing |-> TRUE, incoming |-> TRUE,
     outbound |-> {[from |-> "ctl", port |-> PEER2_PORT]},
     pc |-> "joined", polls |-> 1, body |-> None, doc_id |-> Some(DocIdBody),
     handle |-> TRUE]

\* both processes were started and none of their tasks has run
Spawned(endpoint) ==
    [endpoint |-> endpoint, http |-> "spawned",
     listener1 |-> "spawned", listener2 |-> "spawned",
     connector |-> "connect", connects |-> 0,
     outgoing |-> FALSE, incoming |-> FALSE,
     outbound |-> {},
     pc |-> "get", polls |-> 0, body |-> None, doc_id |-> None,
     handle |-> FALSE]

\* the replicas are linked: each registered its end of the connection
Connected == boot.outgoing /\ boot.incoming

BootFrame ==
    UNCHANGED <<doc, ctl, chat, chat_tx, callers, max_iterations, am, request,
                web, obs, sync, agent, log, env>>

\* start_automerge_infrastructure: the HTTP task binds DOC_ID_PORT; the
\* unwrap ends the task when another program holds the port
HttpBind ==
    /\ boot.http = "spawned"
    /\ boot.endpoint # "none"
    /\ boot' = [boot EXCEPT !.http = IF boot.endpoint = "control"
                                     THEN "serving" ELSE "failed"]
    /\ UNCHANGED router
    /\ BootFrame

\* spawn_peer_connections: the listener task binds PEER1_PORT
Listen1Bind ==
    /\ boot.listener1 = "spawned"
    /\ boot' = [boot EXCEPT !.listener1 = "bound"]
    /\ UNCHANGED router
    /\ BootFrame

\* listen_peer2: the listener task binds PEER2_PORT or reports the failure
Listen2Bind(ok) ==
    /\ boot.listener2 = "spawned"
    /\ boot' = [boot EXCEPT !.listener2 = IF ok THEN "bound" ELSE "failed"]
    /\ UNCHANGED router
    /\ BootFrame

\* connector task that gives up after the first failure
connect_once(b) ==
    IF b.listener2 = "bound"
    THEN [b EXCEPT !.connector = "done", !.outgoing = TRUE]
    ELSE [b EXCEPT !.connector = "done"]

\* spawn_peer_connections: one pass of the connector loop: connect to
\* PEER2_PORT, register the stream and break, or sleep
connect(b) ==
    IF b.listener2 = "bound"
    THEN [b EXCEPT !.connector = "done", !.outgoing = TRUE]
    ELSE [b EXCEPT !.connector = "sleep"]

ConnectorTry ==
    /\ boot.connector = "connect"
    /\ boot' = [connect(boot) EXCEPT
                  !.connects = Count(@, MaxConnects),
                  !.outbound = @ \cup {[from |-> "ctl", port |-> PEER2_PORT]}]
    /\ UNCHANGED router
    /\ BootFrame

\* the sleep of 500 ms is over
ConnectorWake ==
    /\ boot.connector = "sleep"
    /\ boot' = [boot EXCEPT !.connector = "connect"]
    /\ UNCHANGED router
    /\ BootFrame

\* listen_peer2: accept the stream and register it
Accept2 ==
    /\ boot.listener2 = "bound"
    /\ boot.outgoing
    /\ ~boot.incoming
    /\ boot' = [boot EXCEPT !.incoming = TRUE]
    /\ UNCHANGED router
    /\ BootFrame

\* what reqwest::get returns: the body to come, or no response
Answers(b) ==
    CASE b.endpoint = "control" /\ b.http = "serving" ->
            {Ok(DocIdBody), Ok(PaddedBody)}
      [] b.endpoint = "foreign" -> {Ok(body) : body \in ForeignBodies}
      [] OTHER -> {Err("connection refused")}

\* a wait_for_doc_id that stops polling at MaxPolls failures
wait_for_doc_id_capped(b, result) ==
    IF result.ok
    THEN [b EXCEPT !.pc = "text", !.body = Some(result.text)]
    ELSE [b EXCEPT !.pc = IF b.polls >= MaxPolls - 1 THEN "panicked" ELSE "sleep"]

\* wait_for_doc_id: one reqwest::get of the loop
wait_for_doc_id(b, result) ==
    IF result.ok
    THEN [b EXCEPT !.pc = "text", !.body = Some(result.text)]
    ELSE [b EXCEPT !.pc = "sleep"]

Get ==
    /\ boot.pc = "get"
    /\ \E result \in Answers(boot) :
          boot' = [wait_for_doc_id(boot, result) EXCEPT
                      !.polls = Count(@, MaxPolls)]
    /\ UNCHANGED router
    /\ BootFrame

\* the sleep of 1000 ms is over
Wake ==
    /\ boot.pc = "sleep"
    /\ boot' = [boot EXCEPT !.pc = "get"]
    /\ UNCHANGED router
    /\ BootFrame

\* resp.text(): the body was read, the loop breaks with the trimmed text; a
\* body that cannot be read leads to the next get
Text(ok) ==
    /\ boot.pc = "text"
    /\ boot' = IF ok
               THEN [boot EXCEPT !.pc = "parse", !.body = Some(Trim(Unwrap(@)))]
               ELSE [boot EXCEPT !.pc = "get", !.body = None]
    /\ UNCHANGED router
    /\ BootFrame

\* doc_id_str.parse().expect(..): the id, or the panic of the backend thread
Parse ==
    /\ boot.pc = "parse"
    /\ LET id == parse(Unwrap(boot.body)) IN
       boot' = IF id.ok
               THEN [boot EXCEPT !.pc = "request", !.doc_id = Some(id.text)]
               ELSE [boot EXCEPT !.pc = "panicked"]
    /\ UNCHANGED router
    /\ BootFrame

\* request_document resolves once the document has arrived from the peer;
\* start_web_backend then spawns the router
RequestDocument ==
    /\ boot.pc = "request"
    /\ Connected
    /\ boot' = [boot EXCEPT !.pc = "joined", !.handle = TRUE]
    /\ router' = [router EXCEPT !.pc = "waiting"]
    /\ BootFrame

----------------------------------------------------------------------------
(* The system *)

Budgets == {DEFAULT_TOOL_MAX_ITERATIONS} \cup (0..MaxOverride)

\* engine replies to chat prompts in the runs of the whole system
SysChatResults == {Ok(TxtAnswer), Ok(TxtLaunch)}

\* the state start_infra and start_web_backend leave behind
Constructed ==
    /\ doc = LspAgentDefault
    /\ ctl = [pc |-> "select", pending_request |-> None,
              active_model |-> None, uuids |-> 0,
              notified_shutdown |-> FALSE, repo_stopped |-> FALSE]
    /\ chat = NoChat
    /\ chat_tx = <<>>
    /\ callers = <<>>
    /\ router = [pc |-> "waiting", head |-> None]
    /\ web = [alive |-> TRUE, backend |-> "idle", exit |-> FALSE, views |-> {},
              events |-> <<>>, pending |-> EmptyMap, calls |-> <<>>,
              unknown |-> <<>>, read |-> None,
              value |-> None, storage_updated |-> <<>>]
    /\ obs = [p \in Procs |-> "registered"]
    /\ sync = [p \in Procs |-> FALSE]
    /\ agent = [pc |-> "idle"]
    /\ am = NoAutomerge
    /\ request = NoPrompt
    /\ boot = Joined
    /\ log = [pushed |-> <<>>, removed |-> <<>>, responded |-> <<>>,
              written |-> EmptyMap, order |-> <<>>,
              resp_pushed |-> <<>>, dispatched |-> <<>>,
              hints |-> <<>>, dequeue_model |-> <<>>, engine_model |-> <<>>,
              stored |-> EmptyMap, live |-> EmptyMap]

Init ==
    /\ Constructed
    /\ max_iterations = DEFAULT_TOOL_MAX_ITERATIONS
    /\ env = [chats |-> MaxChats, calls |-> MaxAppCalls, edits |-> 0, stores |-> 0]

Next ==
    \/ ChatCall("hi", None)
    \/ CtlChanged
    \/ \E result \in AppResults : InferenceReply(result)
    \/ ChatRecv
    \/ \E result \in SysChatResults : ChatReply(result)
    \/ ChatLaunch
    \/ ShutdownCall
    \/ ShutdownJoin
    \/ ShutdownKill
    \/ RouterChanged
    \/ RouterTake
    \/ UiLaunch
    \/ \E app_id \in web.views, content \in Contents : ApiInference(app_id, content)
    \/ ApiEnqueue
    \/ \E app_id \in web.views : CloseApp(app_id)
    \/ BackendExit
    \/ \E p \in Procs : Deliver(p)

Spec == Init /\ [][Next]_vars

----------------------------------------------------------------------------
(* The mailbox: runs that start with one mini-app on screen.               *)
(* Running is the state of the system after a chat turn launched an app,   *)
(* the router dispatched it and the event loop created its view.           *)

Running ==
    /\ doc = [LspAgentDefault EXCEPT
                !.webviews.documents = MapInsert(EmptyMap, AppId(1),
                                                 DocumentContent("<html>")),
                !.conversation_history = <<User("hi")>>]
    /\ ctl = [pc |-> "select", pending_request |-> None,
              active_model |-> None, uuids |-> 1,
              notified_shutdown |-> FALSE, repo_stopped |-> FALSE]
    /\ chat = NoChat
    /\ chat_tx = <<>>
    /\ callers = <<[content |-> "hi", model |-> None, sent |-> <<None>>,
                    returned |-> TRUE, result |-> None, calls |-> 1]>>
    /\ max_iterations = DEFAULT_TOOL_MAX_ITERATIONS
    /\ router = [pc |-> "waiting", head |-> None]
    /\ web = [alive |-> TRUE, backend |-> "idle", exit |-> FALSE,
              views |-> {AppId(1)}, events |-> <<>>, pending |-> EmptyMap,
              calls |-> <<>>, unknown |-> <<>>, read |-> None,
              value |-> None, storage_updated |-> <<>>]
    /\ obs = [p \in Procs |-> "registered"]
    /\ sync = [p \in Procs |-> FALSE]
    /\ agent = [pc |-> "idle"]
    /\ am = NoAutomerge
    /\ request = NoPrompt
    /\ boot = Joined
    /\ log = [pushed |-> <<>>, removed |-> <<>>, responded |-> <<>>,
              written |-> EmptyMap, order |-> <<>>,
              resp_pushed |-> <<ResponseWebApp(AppId(1), "<html>")>>,
              dispatched |-> <<ResponseWebApp(AppId(1), "<html>")>>,
              hints |-> <<None>>, dequeue_model |-> <<>>, engine_model |-> <<>>,
              stored |-> EmptyMap, live |-> EmptyMap]

InitMailbox == Running /\ env = [chats |-> 0, calls |-> MailboxCalls, edits |-> 0, stores |-> 0]

NextMailbox ==
    \/ CtlChanged
    \/ \E result \in AppResults : InferenceReply(result)
    \/ ShutdownCall
    \/ ShutdownJoin
    \/ ShutdownKill
    \/ RouterChanged
    \/ RouterTake
    \/ \E app_id \in web.views, content \in Contents : ApiInference(app_id, content)
    \/ ApiEnqueue
    \/ \E app_id \in web.views : CloseApp(app_id)
    \/ BackendExit
    \/ \E p \in Procs : Deliver(p)

SpecMailbox == InitMailbox /\ [][NextMailbox]_vars

----------------------------------------------------------------------------
(* Runs under fairness in which shutdown is never called: every task that  *)
(* can take a step eventually takes it, the engine eventually replies and  *)
(* replication eventually delivers.  The editor and the mini-apps are free *)
(* to stop issuing events.                                                 *)

InitLive == Running /\ env = [chats |-> LiveChats, calls |-> LiveCalls, edits |-> 0, stores |-> 0]

NextLive ==
    \/ ChatCall("hi", None)
    \/ CtlChanged
    \/ \E result \in AppResults : InferenceReply(result)
    \/ ChatRecv
    \/ \E result \in SysChatResults : ChatReply(result)
    \/ ChatLaunch
    \/ RouterChanged
    \/ RouterTake
    \/ UiLaunch
    \/ \E app_id \in web.views, content \in Contents : ApiInference(app_id, content)
    \/ ApiEnqueue
    \/ \E app_id \in web.views : CloseApp(app_id)
    \/ \E p \in Procs : Deliver(p)

Fairness ==
    /\ WF_vars(CtlChanged)
    /\ WF_vars(\E result \in AppResults : InferenceReply(result))
    /\ WF_vars(ChatRecv)
    /\ WF_vars(\E result \in SysChatResults : ChatReply(result))
    /\ WF_vars(ChatLaunch)
    /\ WF_vars(RouterChanged)
    /\ WF_vars(RouterTake)
    /\ WF_vars(UiLaunch)
    /\ WF_vars(ApiEnqueue)
    /\ \A p \in Procs : WF_vars(Deliver(p))

SpecLive == InitLive /\ [][NextLive]_vars /\ Fairness

----------------------------------------------------------------------------
(* The response queue: the control process pushes WebApp and Inference
   responses (a chat turn that launches an app, replies to mini-app calls)
   while the router of the rendering process removes them; nobody shuts
   down *)

RouterChats == 1   \* chat turns, each launching an app
RouterCalls == 1   \* mini-app inference calls

InitRouter ==
    Running /\ env = [chats |-> RouterChats, calls |-> RouterCalls, edits |-> 0, stores |-> 0]

NextRouter ==
    \/ ChatCall("hi", None)
    \/ CtlChanged
    \/ InferenceReply(Ok("42"))
    \/ ChatRecv
    \/ ChatReply(Ok(TxtLaunch))
    \/ ChatLaunch
    \/ RouterChanged
    \/ RouterTake
    \/ UiLaunch
    \/ \E app_id \in web.views : ApiInference(app_id, "q1")
    \/ ApiEnqueue
    \/ \E p \in Procs : Deliver(p)

FairnessRouter ==
    /\ WF_vars(CtlChanged)
    /\ WF_vars(InferenceReply(Ok("42")))
    /\ WF_vars(ChatRecv)
    /\ WF_vars(ChatReply(Ok(TxtLaunch)))
    /\ WF_vars(ChatLaunch)
    /\ WF_vars(RouterChanged)
    /\ WF_vars(RouterTake)
    /\ WF_vars(UiLaunch)
    /\ WF_vars(ApiEnqueue)
    /\ \A p \in Procs : WF_vars(Deliver(p))

SpecRouter == InitRouter /\ [][NextRouter]_vars /\ FairnessRouter

----------------------------------------------------------------------------
(* The active model: chat turns with and without a model hint, of every
   outcome, around the inference calls of a mini-app *)

ModelChats == 2   \* chat turns
ModelCalls == 1   \* mini-app inference calls

Models == {"fast", "big"}
HintsOf(models) == {None} \cup {Some(m) : m \in models}

\* an answer, a launch, a reply that does not parse, a failing engine
ModelChatResults == {Ok(TxtAnswer), Ok(TxtLaunch), Ok(TxtPlain), Err("engine down")}

InitModel ==
    Running /\ env = [chats |-> ModelChats, calls |-> ModelCalls, edits |-> 0, stores |-> 0]

NextModel ==
    \/ \E model \in HintsOf(Models) : ChatCall("hi", model)
    \/ CtlChanged
    \/ InferenceReply(Ok("42"))
    \/ ChatRecv
    \/ \E result \in ModelChatResults : ChatReply(result)
    \/ ChatLaunch
    \/ \E app_id \in web.views : ApiInference(app_id, "q1")
    \/ ApiEnqueue
    \/ \E p \in Procs : Deliver(p)

SpecModel == InitModel /\ [][NextModel]_vars

----------------------------------------------------------------------------
(* The conversation history: chat turns of the control process while the
   rendering process closes apps *)

HistoryChats == 1   \* chat turns

\* an answer, a launch, one context request
HistoryChatResults == {Ok(TxtAnswer), Ok(TxtLaunch), Ok(TxtListApps)}

InitHistory == Running /\ env = [chats |-> HistoryChats, calls |-> 0, edits |-> 0, stores |-> 0]

NextHistory ==
    \/ ChatCall("hi", None)
    \/ CtlChanged
    \/ ChatRecv
    \/ \E result \in HistoryChatResults : ChatReply(result)
    \/ ChatLaunch
    \/ RouterChanged
    \/ RouterTake
    \/ UiLaunch
    \/ \E app_id \in web.views : CloseApp(app_id)
    \/ \E p \in Procs : Deliver(p)

SpecHistory == InitHistory /\ [][NextHistory]_vars

----------------------------------------------------------------------------
(* Stored values: a mini-app stores values and reads them back *)

ValueStores == 3   \* store_value calls

InitValues ==
    Running /\ env = [chats |-> 0, calls |-> 0, edits |-> 0,
                       stores |-> ValueStores]

NextValues ==
    \/ \E key \in Keys, value \in Values, description \in Descriptions :
          StoreValue(key, value, description)
    \/ \E key \in Keys : ReadValue(key)
    \/ CtlChanged
    \/ RouterChanged
    \/ \E p \in Procs : Deliver(p)

SpecValues == InitValues /\ [][NextValues]_vars

----------------------------------------------------------------------------
(* Prompts: chat turns that ask for the stored-values context block while a
   mini-app stores values *)

PromptStores == 2   \* store_value calls
PromptChats == 1    \* chat turns

\* an answer, the stored-values request
PromptChatResults == {Ok(TxtAnswer), Ok(TxtListValues)}

InitPrompt ==
    Running /\ env = [chats |-> PromptChats, calls |-> 0, edits |-> 0,
                       stores |-> PromptStores]

NextPrompt ==
    \/ \E key \in Keys, value \in Values, description \in Descriptions :
          StoreValue(key, value, description)
    \/ ChatCall("hi", None)
    \/ CtlChanged
    \/ ChatRecv
    \/ \E result \in PromptChatResults : ChatReply(result)
    \/ RouterChanged
    \/ \E p \in Procs : Deliver(p)

SpecPrompt == InitPrompt /\ [][NextPrompt]_vars

----------------------------------------------------------------------------
(* Bootstrap: both processes were just started; the tasks of the two
   processes run in any order *)

\* the state start_infra leaves behind while run_backend awaits
\* start_web_backend
Starting ==
    /\ doc = LspAgentDefault
    /\ ctl = [pc |-> "select", pending_request |-> None,
              active_model |-> None, uuids |-> 0,
              notified_shutdown |-> FALSE, repo_stopped |-> FALSE]
    /\ chat = NoChat
    /\ chat_tx = <<>>
    /\ callers = <<>>
    /\ router = [pc |-> "boot", head |-> None]
    /\ web = [alive |-> TRUE, backend |-> "starting", exit |-> FALSE, views |-> {},
              events |-> <<>>, pending |-> EmptyMap, calls |-> <<>>,
              unknown |-> <<>>, read |-> None,
              value |-> None, storage_updated |-> <<>>]
    /\ obs = [p \in Procs |-> "none"]
    /\ sync = [p \in Procs |-> FALSE]
    /\ agent = [pc |-> "idle"]
    /\ am = NoAutomerge
    /\ request = NoPrompt
    /\ log = [pushed |-> <<>>, removed |-> <<>>, responded |-> <<>>,
              written |-> EmptyMap, order |-> <<>>,
              resp_pushed |-> <<>>, dispatched |-> <<>>,
              hints |-> <<>>, dequeue_model |-> <<>>, engine_model |-> <<>>,
              stored |-> EmptyMap, live |-> EmptyMap]
    /\ max_iterations = DEFAULT_TOOL_MAX_ITERATIONS
    /\ env = [chats |-> 0, calls |-> 0, edits |-> 0, stores |-> 0]

InitBoot == Starting /\ \E endpoint \in Endpoints : boot = Spawned(endpoint)

NextBoot ==
    \/ HttpBind
    \/ Listen1Bind
    \/ \E ok \in BOOLEAN : Listen2Bind(ok)
    \/ ConnectorTry
    \/ ConnectorWake
    \/ Accept2
    \/ Get
    \/ Wake
    \/ \E ok \in BOOLEAN : Text(ok)
    \/ Parse
    \/ RequestDocument

\* every task is scheduled; a body that was sent is read in the end
FairnessBoot ==
    /\ WF_vars(HttpBind)
    /\ WF_vars(Listen1Bind)
    /\ WF_vars(\E ok \in BOOLEAN : Listen2Bind(ok))
    /\ WF_vars(ConnectorTry)
    /\ WF_vars(ConnectorWake)
    /\ WF_vars(Accept2)
    /\ WF_vars(Get)
    /\ WF_vars(Wake)
    /\ WF_vars(\E ok \in BOOLEAN : Text(ok))
    /\ WF_vars(Parse)
    /\ WF_vars(RequestDocument)

SpecBoot == InitBoot /\ [][NextBoot]_vars /\ FairnessBoot

----------------------------------------------------------------------------
(* Serialization: a value of a document type is reconciled into an empty
   automerge document and hydrated back *)

MaxQueue == 2   \* longest queue written

SampleRequests == {RequestInference("q1", "app-1"), RequestInference("q2", "app-2")}
SampleResponses ==
    {ResponseChat("hello"), ResponseInference("app-1", "42"),
     ResponseWebApp("app-1", "<html>")}
SampleFragments == {User("hi"), Assistant("hello")}
SampleManagers ==
    {DocumentManagerDefault,
     [documents |-> MapInsert(MapInsert(EmptyMap, "a.rs", DocumentContent("fn main")),
                              "b.rs", DocumentContent("")),
      active_document |-> Some("a.rs")]}
SampleStoredValues == {StoredValue("v1", "d1"), StoredValue("", "d2")}

\* the sequences of items of a set, up to a length
SeqsOf(items, n) ==
    UNION {[1..k -> items] : k \in 0..n}

SampleAgents ==
    {[requests |-> rq, responses |-> rs, text_documents |-> td,
      webviews |-> DocumentManagerDefault, should_exit |-> se,
      active_model |-> am_, conversation_history |-> ch, stored_values |-> sv] :
        rq \in SeqsOf(SampleRequests, MaxQueue),
        rs \in {<<>>, <<ResponseChat("hello")>>,
                <<ResponseInference("app-1", "42"), ResponseWebApp("app-1", "<html>")>>,
                <<ResponseWebApp("app-1", "<html>"), ResponseInference("app-1", "42")>>},
        td \in SampleManagers,
        se \in BOOLEAN,
        am_ \in ModelHints,
        ch \in {<<>>, <<User("hi"), Assistant("hello")>>},
        sv \in {EmptyMap, MapInsert(EmptyMap, "k1", StoredValue("v1", "d1"))}}

Samples(kind) ==
    CASE kind = "LspAgent" -> SampleAgents
      [] kind = "AgentRequest" -> SampleRequests
      [] kind = "AgentResponse" -> SampleResponses
      [] kind = "ConversationFragment" -> SampleFragments
      [] kind = "DocumentManager" -> SampleManagers
      [] kind = "StoredValue" -> SampleStoredValues

CodecFrame ==
    UNCHANGED <<doc, ctl, chat, chat_tx, callers, max_iterations, router, web,
                obs, sync, agent, log, env, boot, request>>

\* reconcile(&mut doc, &value) on a new AutoCommit
Reconcile(kind, value) ==
    /\ am.kind = "none"
    /\ am' = [kind |-> kind, written |-> Some(value),
              tree |-> Some(reconcile(kind, value)), read |-> None]
    /\ CodecFrame

\* hydrate(&doc)
Hydrate ==
    /\ am.kind # "none"
    /\ am.read = None
    /\ am' = [am EXCEPT !.read = Some(hydrate(am.kind, Unwrap(am.tree)))]
    /\ CodecFrame

InitCodec == Constructed /\ max_iterations = DEFAULT_TOOL_MAX_ITERATIONS
                /\ env = [chats |-> 0, calls |-> 0, edits |-> 0, stores |-> 0]

NextCodec ==
    \/ \E kind \in Kinds : \E value \in Samples(kind) : Reconcile(kind, value)
    \/ Hydrate

SpecCodec == InitCodec /\ [][NextCodec]_vars

-----------------------------------------------------------------------------
(* The prompt builder as a function of its arguments *)

MaxHistory == 2

SampleHistories == SeqsOf({User("hi"), User("show my apps"), Assistant("hello")}, MaxHistory)
SampleApps == {None, Some(<<>>), Some(<<"<html>", "<p>">>)}
SampleDocs ==
    {None,
     Some([open_documents |-> <<>>, active_document |-> None]),
     Some([open_documents |-> <<"a.rs", "b.rs">>, active_document |-> Some("a.rs")])}

\* build_web_request(history, latest_user, apps, docs)
BuildWebRequest(crate, history, latest_user, apps, docs) ==
    /\ ~request.built
    /\ request' = [built |-> TRUE, crate |-> crate, history |-> history,
                  latest_user |-> latest_user, apps |-> apps, docs |-> docs,
                  text |-> to_string_pretty(
                               WebRequest(crate, history, latest_user, apps, docs))]
    /\ UNCHANGED <<doc, ctl, chat, chat_tx, callers, max_iterations, router, web,
                   obs, sync, agent, log, env, boot, am>>

InitBuild == InitCodec

NextBuild ==
    \E crate \in Crates, history \in SampleHistories, latest_user \in UserTexts,
       apps \in SampleApps, docs \in SampleDocs :
        BuildWebRequest(crate, history, latest_user, apps, docs)

SpecBuild == InitBuild /\ [][NextBuild]_vars

-----------------------------------------------------------------------------
(* Every kind of transaction next to shutdown: editor calls, mini-app calls,
   stored values, close_app, a chat turn, with one mini-app on screen *)

FlagEvents == 2     \* events the editor, the user and the mini-app issue

InitFlag ==
    /\ Running
    /\ env \in [chats : 0..FlagEvents, calls : 0..FlagEvents,
                 edits : 0..FlagEvents, stores : 0..FlagEvents]
    /\ env.chats + env.calls + env.edits + env.stores = FlagEvents

NextFlag ==
    \/ ChatCall("hi", Some("fast"))
    \/ CtlChanged
    \/ InferenceReply(Ok("42"))
    \/ ChatRecv
    \/ \E result \in SysChatResults : ChatReply(result)
    \/ ChatLaunch
    \/ ShutdownCall
    \/ ShutdownJoin
    \/ ShutdownKill
    \/ RouterChanged
    \/ RouterTake
    \/ UiLaunch
    \/ \E app_id \in web.views : ApiInference(app_id, "q1")
    \/ ApiEnqueue
    \/ \E app_id \in web.views : CloseApp(app_id)
    \/ DidOpen("a.rs", "fn main")
    \/ DidChange("a.rs", "")
    \/ DidClose("a.rs")
    \/ SetActiveDocument("a.rs")
    \/ StoreValue("k1", "v1", "d1")
    \/ BackendExit
    \/ \E p \in Procs : Deliver(p)

SpecFlag == InitFlag /\ [][NextFlag]_vars

-----------------------------------------------------------------------------
(* Closing mini-apps between chat turns that launch apps and ask for the
   running apps; the runs start with one mini-app on screen *)

CloseChats == 2     \* chat turns

\* a launch, the running-apps request, an answer
CloseChatResults == {Ok(TxtLaunch), Ok(TxtListApps), Ok(TxtAnswer)}

InitClose ==
    Running /\ env = [chats |-> CloseChats, calls |-> 0, edits |-> 0, stores |-> 0]

NextClose ==
    \/ ChatCall("hi", None)
    \/ CtlChanged
    \/ ChatRecv
    \/ \E result \in CloseChatResults : ChatReply(result)
    \/ ChatLaunch
    \/ RouterChanged
    \/ RouterTake
    \/ UiLaunch
    \/ \E app_id \in web.views : CloseApp(app_id)
    \/ \E p \in Procs : Deliver(p)

SpecClose == InitClose /\ [][NextClose]_vars

-----------------------------------------------------------------------------
(* The prompts of a turn: chat turns with or without user text that ask for
   context while the mini-app on screen is closed *)

TurnChats == 1      \* chat turns

\* the running-apps and open-documents requests, an answer
TurnChatResults == {Ok(TxtListApps), Ok(TxtListDocs), Ok(TxtAnswer)}

InitTurn ==
    Running /\ env = [chats |-> TurnChats, calls |-> 0, edits |-> 0, stores |-> 0]

NextTurnSpec ==
    \/ \E content \in UserTexts : ChatCall(content, None)
    \/ CtlChanged
    \/ ChatRecv
    \/ \E result \in TurnChatResults : ChatReply(result)
    \/ RouterChanged
    \/ \E app_id \in web.views : CloseApp(app_id)
    \/ \E p \in Procs : Deliver(p)

SpecTurn == InitTurn /\ [][NextTurnSpec]_vars

----------------------------------------------------------------------------
(* The tool-use loop: runs of chat turns with every engine reply *)

InitChat ==
    /\ Constructed
    /\ max_iterations \in Budgets
    /\ env = [chats |-> ChatTurns, calls |-> 0, edits |-> 0, stores |-> 0]

NextChat ==
    \/ \E content \in UserTexts, model \in ModelHints : ChatCall(content, model)
    \/ ChatRecv
    \/ \E result \in ChatResults : ChatReply(result)
    \/ ChatLaunch

SpecChat == InitChat /\ [][NextChat]_vars

----------------------------------------------------------------------------
(* The editor's documents, with one mini-app on screen *)

InitDocs == Running /\ env = [chats |-> 0, calls |-> 0, edits |-> DocEdits, stores |-> 0]

NextDocs ==
    \/ \E uri \in EditorUris, text \in Texts : DidOpen(uri, text)
    \/ \E uri \in EditorUris, text \in Texts : DidChange(uri, text)
    \/ \E uri \in EditorUris : DidClose(uri)
    \/ \E uri \in EditorUris : SetActiveDocument(uri)
    \/ \E uri \in EditorUris \cup DOMAIN doc.webviews.documents : ReadDocument(uri)
    \/ CtlChanged
    \/ RouterChanged
    \/ \E p \in Procs : Deliver(p)

SpecDocs == InitDocs /\ [][NextDocs]_vars

----------------------------------------------------------------------------
(* Shutdown under fairness: every task that can take a step eventually     *)
(* takes it, the engine eventually replies, replication eventually         *)
(* delivers, and a shutdown call that can go on eventually does.  Whether  *)
(* and when shutdown is called is up to the editor.                        *)

InitShutdown ==
    Running /\ env = [chats |-> ShutChats, calls |-> ShutCalls, edits |-> 0, stores |-> 0]

NextShutdown ==
    \/ \E content \in UserTexts : ChatCall(content, None)
    \/ CtlChanged
    \/ \E result \in AppResults : InferenceReply(result)
    \/ ChatRecv
    \/ ChatReply(Ok(TxtAnswer))
    \/ ShutdownCall
    \/ ShutdownJoin
    \/ ShutdownKill
    \/ RouterChanged
    \/ RouterTake
    \/ \E app_id \in web.views, content \in Contents : ApiInference(app_id, content)
    \/ ApiEnqueue
    \/ BackendExit
    \/ \E p \in Procs : Deliver(p)

FairnessShutdown ==
    /\ WF_vars(CtlChanged)
    /\ WF_vars(\E result \in AppResults : InferenceReply(result))
    /\ WF_vars(ChatRecv)
    /\ WF_vars(ChatReply(Ok(TxtAnswer)))
    /\ WF_vars(ShutdownJoin)
    /\ WF_vars(ShutdownKill)
    /\ WF_vars(RouterChanged)
    /\ WF_vars(RouterTake)
    /\ WF_vars(ApiEnqueue)
    /\ WF_vars(BackendExit)
    /\ \A p \in Procs : WF_vars(Deliver(p))

SpecShutdown == InitShutdown /\ [][NextShutdown]_vars /\ FairnessShutdown

----------------------------------------------------------------------------
(* Chat callers and shutdown under fairness, with no mini-app on screen *)

InitExit ==
    /\ Constructed
    /\ max_iterations = DEFAULT_TOOL_MAX_ITERATIONS
    /\ env = [chats |-> ExitChats, calls |-> 0, edits |-> 0, stores |-> 0]

NextExit ==
    \/ \E content \in UserTexts : ChatCall(content, None)
    \/ CtlChanged
    \/ ChatRecv
    \/ \E result \in {Ok(TxtAnswer), Ok(TxtListApps)} : ChatReply(result)
    \/ ShutdownCall
    \/ ShutdownJoin
    \/ ShutdownKill
    \/ RouterChanged
    \/ BackendExit
    \/ \E p \in Procs : Deliver(p)

FairnessExit ==
    /\ WF_vars(CtlChanged)
    /\ WF_vars(ChatRecv)
    /\ WF_vars(\E result \in {Ok(TxtAnswer), Ok(TxtListApps)} : ChatReply(result))
    /\ WF_vars(ShutdownJoin)
    /\ WF_vars(ShutdownKill)
    /\ WF_vars(RouterChanged)
    /\ WF_vars(BackendExit)
    /\ \A p \in Procs : WF_vars(Deliver(p))

SpecExit == InitExit /\ [][NextExit]_vars /\ FairnessExit

----------------------------------------------------------------------------
(* Claims *)

\* C1: the control process removes the requests in the order the rendering
\* process pushed them, each at most once and none skipped: at every moment
\* the requests pushed so far are the requests removed so far followed by
\* the requests still in the queue.
C1_RequestsRemovedInPushOrder ==
    log.pushed = log.removed \o doc.requests

\* two different requests were pushed and both were removed, and the
\* orchestrator was also woken with nothing to remove
C1_Witness ==
    /\ Len(log.removed) = 2
    /\ log.removed[1] # log.removed[2]
    /\ ctl.pc = "select" /\ obs["ctl"] = "resolved" /\ doc.requests = <<>>

\* C2: once should_exit is set, each watch loop ends at the next change
\* notification it handles, and no request is removed from the queue.
C2_NoDequeueAfterExit ==
    [][doc.should_exit =>
            /\ (CtlChanged => ctl'.pc = "done")
            /\ (RouterChanged => router'.pc = "done")
            /\ log'.removed = log.removed]_vars

\* C3: with shutdown never called, every request pushed onto the request
\* queue is eventually removed by the orchestrator and answered by a
\* response for the same app on the response queue.
C3_EveryRequestAnswered ==
    \A k \in 1..LiveCalls :
        (Len(log.pushed) >= k) ~>
            /\ Len(log.removed) >= k
            /\ Len(log.responded) >= k
            /\ log.responded[k].id = log.pushed[k].app_id

\* the reply text handle_chat_request matches on, and its action
ReplyText(result) == call_inference(result)
ReplyAction(result) == parse_tool_response(ReplyText(result)).action
KnownActions ==
    {"answer", "nothing", "launch_app", "list_apps", "list_docs", "list_app_values"}

\* the step in which the engine's reply `result` is dispatched
ReplyStep(result) == ChatReply(result)

\* the turn is over and its caller was sent `value`, once
TurnEndedWith(value) ==
    /\ ~chat'.active
    /\ callers'[chat.responder].sent = <<value>>
    /\ callers'[chat.responder].calls = chat.calls

\* C4: when an engine reply parses to an action other than the six known
\* ones, the turn ends at that iteration: no further engine call is made and
\* the caller receives the raw text of that reply.
C4_OtherActionEndsTurn ==
    [][\A result \in ChatResults :
          (ReplyStep(result) /\ ReplyAction(result) \notin KnownActions)
              => TurnEndedWith(Some(ReplyText(result)))]_vars

\* what the commit of a turn appended to the committed transcript
Grown(fragments) ==
    doc'.conversation_history = doc.conversation_history \o fragments

FirstReplyIsAnswer(result) ==
    /\ ReplyStep(result)
    /\ chat.calls = 1
    /\ ReplyAction(result) = "answer"

AnswerMessage(result) ==
    Unwrap(parse_tool_response(ReplyText(result)).message)

\* C5 as stated: a turn whose first engine reply is an answer grows the
\* committed transcript by exactly User(latest user text), Assistant(answer
\* message), for every user text including the empty string.
C5_AnswerAddsUserAndAssistant ==
    [][\A result \in ChatResults :
          FirstReplyIsAnswer(result)
              => Grown(<<User(chat.latest_user),
                         Assistant(AnswerMessage(result))>>)]_vars

\* C5 amended: a turn whose first engine reply is an answer grows the
\* committed transcript by User(latest user text), Assistant(answer message)
\* when the user text is not empty, and by Assistant(answer message) alone
\* when it is empty; no context marker is added in either case.
C5_AnswerAddsFragments ==
    [][\A result \in ChatResults :
          FirstReplyIsAnswer(result)
              => Grown((IF chat.latest_user # ""
                        THEN <<User(chat.latest_user)>> ELSE <<>>)
                       \o <<Assistant(AnswerMessage(result))>>)]_vars

\* a turn with an empty user text was answered at its first engine call and
\* is committed
C5_Witness ==
    /\ \E i \in DOMAIN callers :
          /\ callers[i].content = ""
          /\ callers[i].calls = 1
          /\ callers[i].sent = <<Some("hello")>>
    /\ doc.conversation_history = <<Assistant("hello")>>

AlreadyProvided == {AppsRepeatMsg, DocsRepeatMsg, ValuesRepeatMsg}

\* the reply asks for a context block this turn has already been given
RepeatsBlock(result) ==
    \/ ReplyAction(result) = "list_apps" /\ IsSome(chat.apps_payload)
    \/ ReplyAction(result) = "list_docs" /\ IsSome(chat.docs_payload)
    \/ ReplyAction(result) = "list_app_values" /\ IsSome(chat.stored_values_payload)

\* C6: when the engine asks for a context block that was already supplied in
\* the same turn, the turn ends at that iteration and the caller receives a
\* message saying the list was already provided, whatever other blocks were
\* asked for in between.
C6_RepeatEndsTurn ==
    [][\A result \in ChatResults :
          (ReplyStep(result) /\ RepeatsBlock(result))
              => \E msg \in AlreadyProvided : TurnEndedWith(Some(msg))]_vars

\* a turn asked for the apps, then the documents, then the apps again
C6_Witness ==
    /\ \E i \in DOMAIN callers :
          callers[i].calls = 3 /\ callers[i].sent = <<Some(AppsRepeatMsg)>>
    /\ InSeq(Assistant(AppsReason), doc.conversation_history)
    /\ InSeq(Assistant(DocsReason), doc.conversation_history)

\* C7: when an engine reply is not parseable as a tool response, the turn
\* ends at that iteration and the caller receives exactly that raw text.
C7_UnparseableEndsTurn ==
    [][\A result \in ChatResults :
          (ReplyStep(result) /\ from_str(ReplyText(result)) = None)
              => TurnEndedWith(Some(ReplyText(result)))]_vars

\* a turn ended on plain text after a context request, another on the text
\* of an engine error
C7_Witness ==
    \E i \in DOMAIN callers :
        /\ callers[i].sent \in {<<Some(TxtPlain)>>, <<Some("Error: engine down")>>}
        /\ callers[i].calls = 2

\* C8: with an iteration budget of 1 and an engine that replies list_apps,
\* the turn makes exactly one engine call and the caller receives the fixed
\* fallback message.
C8_BudgetOneFallback ==
    [][(max_iterations = 1 /\ ReplyStep(Ok(TxtListApps)))
          => /\ chat.calls = 1
             /\ TurnEndedWith(Some(
                    "No actionable response was produced. Please retry or rephrase."))]_vars

\* such a turn has ended: one call, the marker committed, the fallback sent
C8_Witness ==
    /\ max_iterations = 1
    /\ \E i \in DOMAIN callers :
          callers[i].calls = 1 /\ callers[i].sent = <<Some(NoActionMsg)>>
    /\ InSeq(Assistant(AppsReason), doc.conversation_history)

\* C9: in every chat turn the engine is called at most max_iterations times,
\* every reply of the engine either ends the turn or leads to one more call
\* within the budget, and the caller's one-shot reply is sent exactly once.
C9_BoundedTurn ==
    /\ [](/\ chat.active => chat.calls <= max_iterations
          /\ ctl.pc = "chat" => chat.calls \in 1..max_iterations
          /\ \A i \in DOMAIN callers :
                /\ Len(callers[i].sent) = IF callers[i].returned THEN 1 ELSE 0
                /\ callers[i].calls <= max_iterations)
    /\ [][\A result \in ChatResults :
            ReplyStep(result)
                => \/ chat'.active /\ ctl'.pc = "chat" /\ chat'.calls = chat.calls + 1
                   \/ chat'.active /\ ctl'.pc = "chat_launch"
                   \/ ~chat'.active /\ callers'[chat.responder].returned]_vars

\* a turn used the whole default budget and its caller has the reply
C9_Witness ==
    /\ max_iterations = DEFAULT_TOOL_MAX_ITERATIONS
    /\ \E i \in DOMAIN callers :
          /\ callers[i].returned
          /\ callers[i].calls = max_iterations
          /\ Len(callers[i].sent) = 1

\* C10: every WebApp response on the response queue has a webviews entry
\* with the same id and the same content.
C10_WebAppHasEntry ==
    \A i \in DOMAIN doc.responses :
        doc.responses[i].variant = "WebApp"
            => /\ doc.responses[i].id \in DOMAIN doc.webviews.documents
               /\ doc.webviews.documents[doc.responses[i].id].text
                      = doc.responses[i].content

\* a WebApp response is on the queue and the router has not taken it yet
C10_Witness ==
    /\ \E i \in DOMAIN doc.responses : doc.responses[i].variant = "WebApp"
    /\ web.views = {}
    /\ router.pc = "waiting"

\* C11: read_document(uri) returns the text last written for uri by did_open
\* or did_change when uri is in text_documents, and the empty string for an
\* id that exists only in webviews, never the content of the app.
C11_ReadDocument ==
    [][\A uri \in EditorUris \cup DOMAIN doc.webviews.documents :
          ReadDocument(uri)
              => /\ web'.read # None
                 /\ Unwrap(web'.read).uri = uri
                 /\ Unwrap(web'.read).text =
                        IF uri \in DOMAIN doc.text_documents.documents
                        THEN log.written[uri]
                        ELSE ""]_vars

\* a changed document was read back, and so was the id of the running app
C11_Witness ==
    /\ web.read = Some([uri |-> AppId(1), text |-> ""])
    /\ AppId(1) \in DOMAIN doc.webviews.documents
    /\ doc.webviews.documents[AppId(1)].text # ""
    /\ "a.rs" \in DOMAIN doc.text_documents.documents
    /\ log.written["a.rs"] = "fn main"

ContextActions == {"list_apps", "list_docs", "list_app_values"}

\* the marker a context request leaves in the transcript
MarkerOf(action) ==
    CASE action = "list_apps" -> AppsReason
      [] action = "list_docs" -> DocsReason
      [] action = "list_app_values" -> ValuesReason

\* C12: a turn with non-empty user text in which the engine made k >= 1
\* distinct context requests and then answered grows the committed transcript
\* by the User fragment, the k markers in the order of the requests, and the
\* final Assistant fragment with the answer.
C12_ContextThenAnswer ==
    [][\A result \in ChatResults :
          (/\ ReplyStep(result)
           /\ ReplyAction(result) = "answer"
           /\ chat.latest_user # ""
           /\ Len(chat.replies) >= 1
           /\ \A i \in DOMAIN chat.replies : chat.replies[i] \in ContextActions)
              => Grown(<<User(chat.latest_user)>>
                       \o [i \in DOMAIN chat.replies |->
                              Assistant(MarkerOf(chat.replies[i]))]
                       \o <<Assistant(AnswerMessage(result))>>)]_vars

\* a turn asked for the documents, then the apps, then answered
C12_Witness ==
    /\ doc.conversation_history =
          <<User("hi"), Assistant(DocsReason), Assistant(AppsReason),
            Assistant("hello")>>
    /\ \E i \in DOMAIN callers :
          callers[i].calls = 3 /\ callers[i].sent = <<Some("hello")>>

\* the fragments the turn has put on its local transcript so far
TurnFragments ==
    SubSeq(chat.history, chat.initial_history_len + 1, Len(chat.history))

\* C13: a turn whose terminal engine action is "nothing" produces no
\* output: the caller receives None, nothing is pushed onto the response
\* queue, no webviews entry is created and no final Assistant fragment is
\* appended to the transcript.
C13_NothingIsSilent ==
    [][\A result \in ChatResults :
          (ReplyStep(result) /\ ReplyAction(result) = "nothing")
              => /\ TurnEndedWith(None)
                 /\ doc'.responses = doc.responses
                 /\ doc'.webviews = doc.webviews
                 /\ Grown(TurnFragments)]_vars

\* C14: when an engine call fails during a chat turn the call yields the
\* string "Error: <cause>", the turn ends at that iteration and chat_request
\* returns Some of that string.
C14_EngineFailureIsAnswer ==
    [][\A result \in ChatResults :
          (ReplyStep(result) /\ ~result.ok)
              => /\ TurnEndedWith(Some("Error: " \o result.text))
                 /\ callers'[chat.responder].returned
                 /\ callers'[chat.responder].result = Some("Error: " \o result.text)]_vars

\* the first engine call of a turn failed and the caller has the error text
C14_Witness ==
    \E i \in DOMAIN callers :
        /\ callers[i].returned
        /\ callers[i].calls = 1
        /\ callers[i].result = Some("Error: engine down")

\* C15: every chat_request call eventually returns, and a call made after
\* the orchestrator task has exited, or still queued when it exits, returns
\* None without anything having been sent to it.
C15_ChatRequestReturns ==
    /\ \A i \in 1..ExitChats :
          (Len(callers) >= i) ~> (Len(callers) >= i /\ callers[i].returned)
    /\ [](\A i \in DOMAIN callers :
            (callers[i].returned /\ callers[i].sent = <<>>)
                => callers[i].result = None /\ ctl.pc = "done")

\* one call was answered; another was queued when the orchestrator exited,
\* or made after it, and got None
C15_Witness ==
    /\ ctl.pc = "done"
    /\ \E i, j \in DOMAIN callers :
          /\ callers[i].returned /\ Len(callers[i].sent) = 1
          /\ callers[j].returned /\ callers[j].sent = <<>>
          /\ callers[j].result = None

ShutdownOrder ==
    <<"should_exit", "notify_shutdown", "repo_stopped", "joined", "killed",
      "returned">>

\* C16: when shutdown() has returned the orchestrator task has ended; the
\* events happened in the order should_exit committed, engine notified,
\* replication stopped, task joined, rendering child killed, return; and the
\* orchestrator performs no document transaction after the return.
C16_ShutdownOrder ==
    /\ [](/\ Len(log.order) <= Len(ShutdownOrder)
          /\ log.order = SubSeq(ShutdownOrder, 1, Len(log.order))
          /\ agent.pc = "returned"
                => /\ log.order = ShutdownOrder
                   /\ ctl.pc = "done"
                   /\ ctl.notified_shutdown /\ ctl.repo_stopped
                   /\ ~chat.active
                   /\ ~web.alive)
    /\ [][agent.pc = "returned" => (doc' = doc /\ ctl' = ctl)]_vars

\* shutdown() has returned after a chat turn launched an app
C16_Witness ==
    /\ agent.pc = "returned"
    /\ log.order = ShutdownOrder
    /\ ctl.uuids = 1
    /\ \E i \in DOMAIN callers : callers[i].returned

\* C17: after shutdown() has committed should_exit the orchestrator loop
\* eventually observes it and exits, and shutdown() eventually returns,
\* whether the loop was idle, in a chat turn or in a mini-app inference when
\* should_exit was set.
C17_ShutdownReturns ==
    (agent.pc = "join") ~> (ctl.pc = "done" /\ agent.pc = "returned")

\* C18: the k-th inference call of an app is completed with the content of
\* the response produced for its own request, never with the content of
\* another request's response.  (Calls and requests are pushed in the same
\* order, and the j-th response produced answers the j-th request removed.)
C18_OwnResponse ==
    \A j \in DOMAIN web.calls :
        IsSome(web.calls[j].response)
            => /\ j <= Len(log.responded)
               /\ log.responded[j].id = web.calls[j].app_id
               /\ Unwrap(web.calls[j].response) = log.responded[j].content

\* C19: whenever the router dispatches an Inference response for an app id,
\* a pending responder of that app is already registered: no response is
\* dropped for an unknown app id.
C19_ResponderRegistered ==
    [][RouterTake =>
          \/ doc.responses = <<>>
          \/ Head(doc.responses).variant # "Inference"
          \/ /\ Head(doc.responses).id \in DOMAIN web.pending
             /\ web.pending[Head(doc.responses).id] # <<>>
             /\ web'.unknown = web.unknown]_vars

\* C20: the response queue never holds a Chat response: every entry is an
\* Inference or a WebApp response, so the head of the queue is always one
\* the router handles.
C20_NoChatResponse ==
    /\ \A i \in DOMAIN doc.responses :
          doc.responses[i].variant \in {"Inference", "WebApp"}
    /\ doc.responses # <<>> => should_handle_response(doc)

\* the reply to a mini-app is on the queue, after the app was launched by a
\* chat turn
C20_Witness ==
    /\ \E i \in DOMAIN doc.responses : doc.responses[i].variant = "Inference"
    /\ web.views # {}
    /\ \E i \in DOMAIN callers : callers[i].returned

\* C21: every response removed from the response queue is dispatched once to
\* the handler of its kind, in the order the responses were pushed, and the
\* response take_response removes is the head handle_web_doc_change
\* inspected, whatever the control process appended in between.
C21_DispatchInOrder ==
    /\ [](/\ log.resp_pushed = log.dispatched \o doc.responses
          /\ router.pc = "take"
                => /\ doc.responses # <<>>
                   /\ IsSome(router.head)
                   /\ Head(doc.responses) = Unwrap(router.head)
                   /\ Unwrap(router.head).variant # "Chat")
    /\ [][RouterTake =>
            LET resp == Unwrap(router.head) IN
            /\ log'.dispatched = Append(log.dispatched, resp)
            /\ resp.variant = "WebApp"
                  => web' = runtime_launch_app(web, resp.id, resp.content)
            /\ resp.variant = "Inference"
                  => web' = runtime_handle_inference_response(web, resp.id,
                                                              resp.content)]_vars

\* the router took a WebApp response while the reply to a mini-app, pushed
\* after the inspection or before it, was waiting behind it
C21_Witness ==
    /\ Len(log.dispatched) >= 2
    /\ log.dispatched[Len(log.dispatched)].variant = "WebApp"
    /\ doc.responses # <<>>
    /\ Head(doc.responses).variant = "Inference"

\* C22: with should_exit never set and every task scheduled fairly, every
\* response pushed to the response queue is eventually removed and
\* dispatched, also when several were pushed before the router handled one
\* notification.
C22_EveryResponseDispatched ==
    \A i \in 1..(1 + RouterChats + RouterCalls) :
        (Len(log.resp_pushed) >= i) ~> (Len(log.dispatched) >= i)

\* the hint of the last committed turn that supplied one, None if none did
RECURSIVE LastHint(_)
LastHint(hints) ==
    IF hints = <<>> THEN None
    ELSE IF IsSome(hints[Len(hints)]) THEN hints[Len(hints)]
    ELSE LastHint(SubSeq(hints, 1, Len(hints) - 1))

\* C23: active_model is the model hint of the most recently committed chat
\* turn that supplied one, a turn without a hint leaving it unchanged
\* whatever its outcome; each mini-app inference calls the engine with the
\* active_model of the transaction that dequeued its request.
C23_ActiveModel ==
    /\ doc.active_model = LastHint(log.hints)
    /\ Len(log.engine_model) <= Len(log.dequeue_model)
    /\ \A i \in 1..Len(log.engine_model) :
          log.engine_model[i] = log.dequeue_model[i]

\* a turn with a hint, then a turn without one, were committed and a
\* mini-app call was then served with the hinted model
C23_Witness ==
    /\ Len(log.hints) >= 3
    /\ IsSome(log.hints[2])
    /\ ~IsSome(log.hints[3])
    /\ log.engine_model = <<log.hints[2]>>

IsPrefix(s, t) == Len(s) <= Len(t) /\ SubSeq(t, 1, Len(s)) = s

AppClosed(app_id) == Assistant("App closed: " \o app_id)

\* C24: conversation_history is append-only: after every transaction, by
\* either process, the previous history is a prefix of the new one, so a
\* chat turn keeps, in place, the fragments the rendering process appended
\* during its engine calls.
C24_HistoryAppendOnly ==
    [][IsPrefix(doc.conversation_history, doc'.conversation_history)]_vars

\* a turn has committed its fragments behind an "App closed" fragment that
\* was appended after the turn had read the history
C24_Witness ==
    /\ ctl.pc = "chat_launch"
    /\ Len(doc.conversation_history) > chat.initial_history_len + 1
    /\ doc.conversation_history[chat.initial_history_len + 1] = AppClosed(AppId(1))
    /\ doc.conversation_history[Len(doc.conversation_history)] = User("hi")

Range(f) == {f[x] : x \in DOMAIN f}

\* every text a prompt is built from
Mentions(prompt) ==
    {f.content : f \in Range(prompt.history)}
      \cup {prompt.latest_user}
      \cup (IF IsSome(prompt.apps) THEN Range(Unwrap(prompt.apps)) ELSE {})
      \cup (IF IsSome(prompt.docs)
            THEN Range(Unwrap(prompt.docs).open_documents)
                   \cup Range(Unwrap(prompt.docs).active_document)
            ELSE {})
      \cup (IF IsSome(prompt.stored_values)
            THEN UNION {Range(e) : e \in Range(Unwrap(prompt.stored_values))}
            ELSE {})

\* the document with other values under the same keys and descriptions
WithValues(d, vals) ==
    [d EXCEPT !.stored_values =
        [k \in DOMAIN @ |-> StoredValue(vals[k], @[k].description)]]

\* C25: the stored-values block of a prompt holds keys and descriptions
\* only, and a turn started on a document that differs in the value fields
\* only builds the same prompts: no stored value reaches a chat prompt.
C25_NoValueInPrompt ==
    /\ [](chat.active /\ IsSome(chat.request_text)
            => LET prompt == Unwrap(chat.request_text) IN
               /\ Mentions(prompt) \cap Values = {}
               /\ IsSome(prompt.stored_values)
                    => \A e \in Range(Unwrap(prompt.stored_values)) :
                          /\ DOMAIN e = {"key", "description"}
                          /\ e.key \in DOMAIN log.stored
                          /\ e.description \in Descriptions)
    /\ [][ctl.pc = "select" /\ ctl'.pc = "chat"
            => \A vals \in [DOMAIN doc.stored_values -> Values] :
                  \E app_order \in Orders(DOMAIN doc.webviews.documents),
                     value_order \in Orders(DOMAIN doc.stored_values) :
                     chat' = CallEngine(ChatLocals(Head(chat_tx),
                                                   WithValues(doc, vals),
                                                   app_order, value_order))]_vars

\* the prompt of a turn carries the block of two stored values
C25_Witness ==
    /\ chat.active
    /\ IsSome(chat.request_text)
    /\ IsSome(Unwrap(chat.request_text).stored_values)
    /\ Len(Unwrap(Unwrap(chat.request_text).stored_values)) = 2

\* C26: read_value(k) is Some(v) for the v of the last store_value(k, v, d)
\* and None for a key never stored; store_value on one key leaves the value
\* and description under every other key unchanged.
C26_ReadAfterStore ==
    /\ [](\A k \in Keys :
            read_value(doc, k) = IF k \in DOMAIN log.stored
                                 THEN Some(log.stored[k].value) ELSE None)
    /\ [][web'.value # web.value
            => LET r == Unwrap(web'.value) IN
               r.value = IF r.key \in DOMAIN log.stored
                         THEN Some(log.stored[r.key].value) ELSE None]_vars
    /\ [][web'.storage_updated # web.storage_updated
            => \A k \in DOMAIN doc.stored_values :
                  k # web'.storage_updated[Len(web'.storage_updated)]
                     => /\ k \in DOMAIN doc'.stored_values
                        /\ doc'.stored_values[k] = doc.stored_values[k]]_vars

\* k1 was stored twice, k2 once in between, and k1 then read back
C26_Witness ==
    /\ web.storage_updated = <<"k1", "k2", "k1">>
    /\ DOMAIN doc.stored_values = Keys
    /\ web.value = Some([key |-> "k1", value |-> Some("v2")])
    /\ doc.stored_values["k2"] = StoredValue("v1", "d2")

\* C27: the joiner polls until it has a body that parses as a document id;
\* a body that does not parse leads to another poll and never to the end
\* of the backend of the rendering process.
C27_UnparseablePollsAgain ==
    /\ boot.pc # "panicked"
    /\ boot.pc \in {"request", "joined"} => parse(Unwrap(boot.body)).ok

\* C28: when the endpoint never answers, the joiner polls for ever: it
\* obtains no document handle, starts no router and reaches no terminated
\* or failed state.
C28_PollsForEver ==
    /\ [](boot.endpoint = "none"
            => /\ boot.pc \in {"get", "sleep"}
               /\ ~boot.handle
               /\ router.pc = "boot")
    /\ []<>(boot.endpoint # "none" \/ boot.pc = "get")
    /\ []<>(boot.endpoint # "none" \/ boot.pc = "sleep")

\* the joiner sleeps after more failed polls than are counted
C28_Witness ==
    /\ boot.endpoint = "none"
    /\ boot.polls = MaxPolls
    /\ boot.pc = "sleep"

\* outbound connection attempts made by process p to the port
Attempted(p, port) == [from |-> p, port |-> port] \in boot.outbound

Outside(d) ==
    [requests |-> d.requests, responses |-> d.responses,
     webviews |-> d.webviews, conversation_history |-> d.conversation_history,
     stored_values |-> d.stored_values, active_model |-> d.active_model,
     should_exit |-> d.should_exit]

\* C30: after any sequence of did_open, did_change and did_close,
\* text_documents.documents maps exactly the URIs opened or changed and not
\* closed since, each to the last text given; these operations and
\* set_active_document change no field of the document outside
\* text_documents.
C30_EditorFrame ==
    /\ [](/\ DOMAIN doc.text_documents.documents = DOMAIN log.live
          /\ \A uri \in DOMAIN log.live :
                doc.text_documents.documents[uri] = DocumentContent(log.live[uri]))
    /\ [][env'.edits # env.edits => Outside(doc') = Outside(doc)]_vars

\* a.rs was changed without being opened; b.rs was opened and closed
C30_Witness ==
    /\ log.live = MapInsert(EmptyMap, "a.rs", "fn main")
    /\ "b.rs" \in DOMAIN log.written
    /\ doc.text_documents.documents = MapInsert(EmptyMap, "a.rs", DocumentContent("fn main"))
    /\ doc.webviews.documents # EmptyMap
    /\ env.edits = 0

\* C31: a value of a document type written into the replicated document and
\* read back is equal to the value written, the queues in the same order.
C31_RoundTrip ==
    IsSome(am.read)
        => /\ Unwrap(am.read).ok
           /\ Unwrap(am.read).text = Unwrap(am.written)

\* an LspAgent with two requests and two responses was read back
C31_Witness ==
    /\ am.kind = "LspAgent"
    /\ IsSome(am.read)
    /\ Len(Unwrap(am.written).requests) = 2
    /\ Len(Unwrap(am.written).responses) = 2
    /\ Unwrap(am.written).should_exit

\* no transaction was committed since the control process committed the
\* first state of the document
Untouched ==
    /\ log.pushed = <<>> /\ log.removed = <<>> /\ log.resp_pushed = <<>>
    /\ log.dispatched = <<>> /\ log.hints = <<>> /\ log.order = <<>>
    /\ log.written = EmptyMap /\ log.stored = EmptyMap

\* C32: the state of the document the control process commits first, which
\* every watcher starts from, is the default: empty request and response
\* queues, empty text_documents and webviews without an active document,
\* should_exit false, no active_model, empty conversation_history and
\* stored_values; hydrating that commit gives the same state.
C32_InitialDocument ==
    Untouched
        => /\ doc.requests = <<>>
           /\ doc.responses = <<>>
           /\ DOMAIN doc.text_documents.documents = {}
           /\ ~IsSome(doc.text_documents.active_document)
           /\ DOMAIN doc.webviews.documents = {}
           /\ ~IsSome(doc.webviews.active_document)
           /\ doc.should_exit = FALSE
           /\ ~IsSome(doc.active_model)
           /\ doc.conversation_history = <<>>
           /\ DOMAIN doc.stored_values = {}
           /\ hydrate("LspAgent", reconcile("LspAgent", LspAgentDefault)) = Ok(doc)

\* the orchestrator has read the first state for a chat turn
C32_Witness ==
    /\ Untouched
    /\ ctl.pc = "chat"
    /\ chat.history = <<>>
    /\ obs["web"] = "registered"

\* C33: a built prompt holds the apps block and its note exactly when apps
\* were passed to the builder, and the documents block and its note exactly
\* when documents were passed; with neither passed the apps and
\* open_documents fields are absent; the transcript starts with one item per
\* history fragment, in the history's order and with its role and content.
C33_BlocksAndTranscript ==
    request.built =>
        LET text == request.text
            has(f) == f \in DOMAIN text
        IN /\ has("apps") <=> IsSome(request.apps)
           /\ has("apps_note") <=> IsSome(request.apps)
           /\ has("apps") => /\ text["apps"] = Unwrap(request.apps)
                             /\ text["apps_note"] = AppsNote
           /\ has("open_documents") <=> IsSome(request.docs)
           /\ has("docs_note") <=> IsSome(request.docs)
           /\ has("open_documents") =>
                  /\ text["open_documents"] = Unwrap(request.docs).open_documents
                  /\ text["docs_note"] = DocsNote
           /\ has("active_document") =>
                  /\ IsSome(request.docs)
                  /\ Some(text["active_document"]) = Unwrap(request.docs).active_document
           /\ text["latest_user"] = request.latest_user
           /\ Len(text["history"]) >= Len(request.history)
           /\ \A i \in DOMAIN request.history :
                  /\ text["history"][i].content = request.history[i].content
                  /\ text["history"][i].role =
                         IF request.history[i] = User(request.history[i].content)
                         THEN "user" ELSE "assistant"
           /\ (request.apps = None /\ request.docs = None) =>
                  Len(text["history"]) = Len(request.history)

C33_Witness ==
    /\ request.built
    /\ request.history = <<User("show my apps"), Assistant("hello")>>
    /\ IsSome(request.apps) /\ request.docs = None
    /\ "apps_note" \in DOMAIN request.text
    /\ "open_documents" \notin DOMAIN request.text
    /\ request.text["history"][1].role = "user"
    /\ request.text["history"][2].role = "assistant"

\* C34: every request the control process removed is answered by one
\* Inference response for the same app, pushed in the order of removal and
\* holding the engine's text or "Error: <cause>"; the only removed request
\* without its response is the one whose engine call is in flight, also when
\* should_exit was observed in the wake-up that removed it.
C34_EveryRemovalAnswered ==
    /\ Len(log.removed) =
           Len(log.responded) + (IF ctl.pc = "inference" THEN 1 ELSE 0)
    /\ \A k \in DOMAIN log.responded :
           /\ k \in DOMAIN log.removed
           /\ log.responded[k].variant = "Inference"
           /\ log.responded[k].id = log.removed[k].app_id

\* the fragments a step appends to the committed transcript
Appended ==
    SubSeq(doc'.conversation_history, Len(doc.conversation_history) + 1,
           Len(doc'.conversation_history))

ContextMarkers == {AppsReason, DocsReason, ValuesReason}

\* C35: a turn with non-empty user text whose last engine reply is
\* launch_app with app content commits the User fragment once and no final
\* Assistant fragment (the only Assistant fragments it appends are the
\* markers of its context requests), and then, in one transaction, writes one
\* webviews entry under an id no entry has and pushes the WebApp response
\* with that id and content; its caller receives None.
C35_LaunchTurn ==
    /\ [][\A result \in ChatResults :
            (/\ ReplyStep(result)
             /\ ReplyAction(result) = "launch_app"
             /\ IsSome(parse_tool_response(ReplyText(result)).app)
             /\ chat.latest_user # "")
                => /\ ctl'.pc = "chat_launch"
                   /\ chat'.response_message = None
                   /\ Cardinality({i \in DOMAIN Appended :
                                       Appended[i].role = "user"}) = 1
                   /\ \E i \in DOMAIN Appended :
                          Appended[i] = User(chat.latest_user)
                   /\ \A i \in DOMAIN Appended :
                          Appended[i].role = "assistant"
                              => Appended[i].content \in ContextMarkers]_vars
    /\ [][ChatLaunch =>
            LET before == DOMAIN doc.webviews.documents
                after == DOMAIN doc'.webviews.documents
            IN /\ before \subseteq after
               /\ Cardinality(after \ before) = 1
               /\ \A id \in after \ before :
                      /\ doc'.webviews.documents[id] =
                             DocumentContent(Unwrap(chat.launched_app))
                      /\ doc'.responses =
                             Append(doc.responses,
                                    ResponseWebApp(id, Unwrap(chat.launched_app)))
               /\ \A id \in before :
                      doc'.webviews.documents[id] = doc.webviews.documents[id]
               /\ callers'[chat.responder].sent = <<None>>]_vars

\* C36: should_exit is false until shutdown() commits it, and no transaction
\* of either process (editor calls, request push and pop, response push and
\* pop, chat commit, launch_app, store_value, close_app) turns it from true
\* to false.
C36_ShouldExitMonotonic ==
    /\ [](doc.should_exit <=> InSeq("should_exit", log.order))
    /\ [][doc.should_exit => doc'.should_exit]_vars

\* should_exit is set, the orchestrator has not handled it, and the document
\* holds a stored value and a request
C36_Witness ==
    /\ doc.should_exit
    /\ ctl.pc # "done"
    /\ doc.stored_values # EmptyMap
    /\ doc.requests # <<>>

\* the apps launched so far, and the content each was launched with
LaunchedIds ==
    {log.resp_pushed[i].id :
        i \in {k \in DOMAIN log.resp_pushed : log.resp_pushed[k].variant = "WebApp"}}

ContentOf(id) ==
    (CHOOSE r \in Range(log.resp_pushed) : r.variant = "WebApp" /\ r.id = id).content

\* the apps closed before the running turn read the document
ClosedAtStart ==
    {id \in LaunchedIds :
        \E i \in 1..chat.initial_history_len :
            chat.history[i] = Assistant("App closed: " \o id)}

\* close_app(app_id) removes the entry of app_id, appends the fragment
\* "App closed: <app_id>" and leaves every other field as it was
CloseAppFrame ==
    \A app_id \in LaunchedIds :
        CloseApp(app_id) =>
            /\ app_id \notin DOMAIN doc'.webviews.documents
            /\ \A id \in DOMAIN doc.webviews.documents \ {app_id} :
                   /\ id \in DOMAIN doc'.webviews.documents
                   /\ doc'.webviews.documents[id] = doc.webviews.documents[id]
            /\ DOMAIN doc'.webviews.documents \subseteq DOMAIN doc.webviews.documents
            /\ doc'.webviews.active_document = doc.webviews.active_document
            /\ doc'.conversation_history =
                   Append(doc.conversation_history,
                          Assistant("App closed: " \o app_id))
            /\ doc'.text_documents = doc.text_documents
            /\ doc'.requests = doc.requests
            /\ doc'.responses = doc.responses
            /\ doc'.stored_values = doc.stored_values
            /\ doc'.active_model = doc.active_model
            /\ doc'.should_exit = doc.should_exit

\* C37 as stated: close_app has the frame above, and the running-apps block
\* a later turn puts into its prompts does not contain the content of an app
\* closed before the turn.
C37_ClosedContentGone ==
    /\ [][CloseAppFrame]_vars
    /\ [](\A id \in LaunchedIds :
             (chat.active /\ id \in ClosedAtStart /\ IsSome(chat.apps_payload))
                 => ~InSeq(ContentOf(id), Unwrap(chat.apps_payload)))

\* C37, amended: close_app has the frame above, and the running-apps block of
\* a later turn holds one item per app launched and not closed before the
\* turn, so a closed app contributes no item; its content is still listed
\* when another running app was launched with the same content.
C37_ClosedEntryGone ==
    /\ [][CloseAppFrame]_vars
    /\ [](chat.active =>
             \A content \in {ContentOf(id) : id \in LaunchedIds}
                               \cup Range(chat.running_apps) :
                 Cardinality({i \in DOMAIN chat.running_apps :
                                  chat.running_apps[i] = content})
                   = Cardinality({id \in LaunchedIds \ ClosedAtStart :
                                      ContentOf(id) = content}))

\* a turn that started after an app was closed, while another app runs, has
\* the running-apps block in its prompt
C37_Witness ==
    /\ chat.active
    /\ ClosedAtStart # {}
    /\ IsSome(chat.apps_payload)
    /\ Unwrap(chat.apps_payload) # <<>>
    /\ IsSome(chat.request_text)
    /\ Unwrap(chat.request_text).apps = chat.apps_payload

\* engine calls the orchestrator has issued and not yet seen return
InFlight ==
    (IF chat.active THEN chat.calls - Len(chat.replies) ELSE 0)
      + (IF ctl.pc = "inference" THEN 1 ELSE 0)

\* C38: at most one engine call of the orchestrator is in flight, a mini-app
\* request is never being served while a chat turn is in progress, no step
\* taken during a chat turn removes a request, and every step that shortens
\* the request queue is the orchestrator's check_agent_state removing the
\* head.
C38_OneAtATime ==
    /\ [](InFlight \in {0, 1})
    /\ [](chat.active => ctl.pc \in {"chat", "chat_launch"})
    /\ [][chat.active =>
            /\ log'.removed = log.removed
            /\ Len(doc'.requests) >= Len(doc.requests)]_vars
    /\ [][Len(doc'.requests) < Len(doc.requests) =>
            /\ CtlChanged
            /\ doc'.requests = Tail(doc.requests)
            /\ log'.removed = Append(log.removed, Head(doc.requests))]_vars

\* a chat turn's engine call is in flight while a request waits in the queue
\* and the orchestrator is not at its select
C38_Witness ==
    /\ chat.active /\ ctl.pc = "chat"
    /\ InFlight = 1
    /\ doc.requests # <<>>
    /\ log.removed = <<>>

\* C39: at the end of handle_chat_request at most one of the reply message
\* and the launched app is set; a turn that launches an app has no reply
\* message, so it commits no final Assistant fragment and its caller is sent
\* None, Some(message) being sent only by turns that end on a reply message.
C39_OneOutcome ==
    /\ [](ctl.pc = "chat_launch" =>
             /\ IsSome(chat.launched_app)
             /\ chat.response_message = None)
    /\ [][ChatLaunch =>
            /\ callers'[chat.responder].sent = <<None>>
            /\ doc'.conversation_history = doc.conversation_history]_vars

\* the context requests the engine made so far in the running turn
ContextReplies ==
    {i \in DOMAIN chat.replies :
        chat.replies[i] \in {"list_apps", "list_docs", "list_app_values"}}

\* the prompt in flight, and the part of its transcript added by this turn
Prompt == Unwrap(chat.request_text)

PromptTurnPart ==
    SubSeq(Prompt.history, chat.initial_history_len + 1, Len(Prompt.history))

\* the transcript of the prompt starts with the history the turn read, and
\* each block is absent until its request was made and from then on is the
\* list the turn collected when it read the document
PromptBlocks ==
    /\ SubSeq(Prompt.history, 1, chat.initial_history_len) =
           SubSeq(chat.history, 1, chat.initial_history_len)
    /\ Prompt.apps = IF InSeq("list_apps", chat.replies)
                     THEN Some(chat.running_apps) ELSE None
    /\ Prompt.docs = IF InSeq("list_docs", chat.replies)
                     THEN Some(chat.docs_info) ELSE None
    /\ Prompt.stored_values = IF InSeq("list_app_values", chat.replies)
                              THEN Some(chat.stored_values_info) ELSE None

\* the lists a turn collected are those of the document at the start of the
\* turn, and no step of the turn changes them
SnapshotKept ==
    /\ (ChatRecv /\ chat'.active) =>
           /\ \E order \in Orders(DOMAIN doc.webviews.documents) :
                  chat'.running_apps = collect_apps(doc.webviews, order)
           /\ chat'.docs_info = collect_docs(doc.text_documents)
           /\ \E order \in Orders(DOMAIN doc.stored_values) :
                  chat'.stored_values_info =
                      collect_stored_values(doc.stored_values, order)
    /\ (chat.active /\ chat'.active) =>
           /\ chat'.running_apps = chat.running_apps
           /\ chat'.docs_info = chat.docs_info
           /\ chat'.stored_values_info = chat.stored_values_info
           /\ chat'.latest_user = chat.latest_user

\* C40 as stated: in every prompt of a turn the user's text is the
\* latest_user field, with nothing added to the transcript, until the first
\* context request, and from then on latest_user is empty and the text is
\* the one User fragment the turn added to the transcript; the supplied
\* blocks stay, with the content read at the start of the turn.
C40_UserTextOnce ==
    /\ []((chat.active /\ ctl.pc = "chat") =>
             /\ PromptBlocks
             /\ IF ContextReplies = {}
                THEN /\ Prompt.latest_user = chat.latest_user
                     /\ PromptTurnPart = <<>>
                ELSE /\ Prompt.latest_user = ""
                     /\ PromptTurnPart # <<>>
                     /\ PromptTurnPart[1] = User(chat.latest_user)
                     /\ \A i \in DOMAIN PromptTurnPart :
                            i > 1 => PromptTurnPart[i].role = "assistant")
    /\ [][SnapshotKept]_vars

\* C40, amended: the same for a turn whose user text is not empty; a turn
\* with empty user text has an empty latest_user in every prompt and adds no
\* User fragment to the transcript.
C40_NonEmptyUserTextOnce ==
    /\ []((chat.active /\ ctl.pc = "chat") =>
             /\ PromptBlocks
             /\ IF ContextReplies = {}
                THEN /\ Prompt.latest_user = chat.latest_user
                     /\ PromptTurnPart = <<>>
                ELSE /\ Prompt.latest_user = ""
                     /\ PromptTurnPart # <<>>
                     /\ \A i \in DOMAIN PromptTurnPart :
                            PromptTurnPart[i].role = "user"
                                <=> (i = 1 /\ chat.latest_user # "")
                     /\ chat.latest_user # ""
                            => PromptTurnPart[1] = User(chat.latest_user))
    /\ [][SnapshotKept]_vars

\* the third prompt of a turn with user text: two context requests were
\* served, an app was closed since the turn read the document, and the
\* prompt still lists it
C40_Witness ==
    /\ chat.active /\ ctl.pc = "chat"
    /\ chat.latest_user = "hi"
    /\ chat.replies = <<"list_apps", "list_docs">>
    /\ Prompt.latest_user = ""
    /\ Prompt.apps = Some(<<"<html>">>)
    /\ doc.webviews.documents = EmptyMap
    /\ PromptTurnPart = <<User("hi"), Assistant(AppsReason), Assistant(DocsReason)>>

====
